---- MODULE Spec2Model ----
(***************************************************************************)
(* Section-capture registry and export pipeline of the Power-House         *)
(* dashboard (src/app.py).                                                 *)
(*                                                                         *)
(* The registry is the pair of dictionaries SECTION_FIGS / SECTION_CARDS   *)
(* plus the one-slot CURRENT_SECTION pointer.  The exporters read it and   *)
(* build a PDF page, a narrative document or a slide deck.                 *)
(*                                                                         *)
(* The specifications share the state:                                     *)
(*   Spec     any interleaving of begin_section / capture_fig /            *)
(*            capture_metric_cards over a few section names, with the      *)
(*            export row run at any point;                                 *)
(*   SpecPdf  one section filled with up to MaxFigs charts of varying      *)
(*            rasterization behaviour, exported with build_section_pdf;    *)
(*   SpecReport the consolidated export over the section list;             *)
(*   SpecDoc, SpecSlide  the narrative document and the deck of one        *)
(*            section over charts with varying data;                       *)
(*   SpecLabel  the month labels the exporters give a chart;               *)
(*   SpecTile   the card tiles and the chart area of the PDF page;         *)
(*   SpecScreen render_fig on its cached and on its direct path;           *)
(*   SpecRun    a run of the script with optional libraries missing;       *)
(*   SpecTab    the Report tab rendered after the other tabs;              *)
(*   SpecGate   the sidebar's admin gate and the publish action.           *)
(***************************************************************************)
EXTENDS Integers, Sequences, FiniteSets, TLC

VARIABLES
    SECTION_FIGS,     \* dict: section name -> list of captured charts
    SECTION_CARDS,    \* dict: section name -> list of captured card-groups
    CURRENT_SECTION,  \* CURRENT_SECTION[0]
    DOCX_OK,          \* python-docx importable (fixed for the process)
    PDF_MERGE_OK,     \* PyPDF2 importable (fixed for the process)
    pptx_installed,   \* python-pptx importable (fixed for the process)
    script,           \* where the run of app.py stands: "start", "running", "crashed"
    shown,            \* the chart st.plotly_chart displayed last
    published,        \* the data directory: whether it exists, the content of the
                      \* published workbook and of the latest upload_<ts>.xlsx (0: no file)
    active_source_path, \* st.session_state["active_source_path"], "" when unset
    gate,             \* the configured admin password, and as history what the
                      \* sidebar of the latest run was given
    compiled,         \* history: the registry as the Report tab left it for its export row
    last_export,      \* outcome of the most recent export call(s)
    clock,            \* history: number of registry calls made so far
    lastBegin,        \* history: clock value of the latest begin_section(S), 0 if none
    sinceBegin,       \* history: ids of the charts captured since the latest begin_section
    dropped           \* history: number of items discarded by the latest begin_section

vars == <<SECTION_FIGS, SECTION_CARDS, CURRENT_SECTION, DOCX_OK, PDF_MERGE_OK,
          pptx_installed, script, shown, published, active_source_path, gate,
          compiled, last_export, clock, lastBegin, sinceBegin, dropped>>

history  == <<clock, lastBegin, sinceBegin, dropped>>
\* what no registry call and no exporter writes
caps     == <<DOCX_OK, PDF_MERGE_OK, pptx_installed, script, shown, published,
              active_source_path, gate, compiled>>

-----------------------------------------------------------------------------
(* Bounds *)

MaxOps  == 4     \* registry calls explored under Spec
MaxFigs == 10    \* charts captured into the section under SpecPdf
MaxOdd  == 2     \* of which at most this many do not rasterize at the first preset
MaxReportOps == 6  \* registry calls explored under SpecReport

-----------------------------------------------------------------------------
(* Section names *)

DefaultBucket == "Page"

\* the seven sections of the consolidated report, in order
section_order ==
    << "Overview", "Energy Sources", "Solar Savings", "Expenses",
       "Production vs Consumption", "Gas Consumption", "Comparison" >>

\* names handed to begin_section under Spec
BeginInputs == {"", "Page", "Overview", "Forecasting"}

\* section keys handed to the export row under Spec
ExportKeys == {"Overview", "Forecasting", "Page", "Report"}

AllNames == BeginInputs \cup ExportKeys \cup {section_order[i] : i \in 1..Len(section_order)}

PdfSection == "Overview"

\* the key of the consolidated report
ReportKey == "Report"

-----------------------------------------------------------------------------
(* Charts and card groups *)

\* scale arguments of the pio.to_image calls: the five PDF presets, the PDF
\* fallback (1), the deck preset (2) and the deck's default-argument call (0)
Presets == <<7, 6, 5, 4, 3>>
FallbackScale == 1
DeckScale == 2
DeckDefaultScale == 0

\* A rasterization profile says how the renderer treats one chart:
\* raises = scales at which pio.to_image raises,
\* bombs  = scales whose PNG the image reader rejects (too large).
RasterOk       == [raises |-> {},              bombs |-> {}]
RasterThird    == [raises |-> {7, 6},          bombs |-> {}]
RasterSecond   == [raises |-> {7, 5},          bombs |-> {}]
RasterNever    == [raises |-> {7, 6, 5, 4, 3}, bombs |-> {}]
RasterBomb     == [raises |-> {7},             bombs |-> {6}]
RasterSkipped  == [raises |-> {1},             bombs |-> {7}]
RasterDeckFail == [raises |-> {2, 0},          bombs |-> {}]

-----------------------------------------------------------------------------
(* Traces and their narrative sentence: _describe_trace *)

\* One point of a y or values array.  Numbers are kept in hundredths.
\*   num      a number below the float range, cents hundredths
\*   missing  None or NaN
\*   text     a string that is no number: pd.to_numeric(errors="coerce") -> NaN
\*   huge     an integer beyond the float range: pd.to_numeric raises
\*            OverflowError, which errors="coerce" does not cover
Num(c)  == [kind |-> "num", cents |-> c]
Missing == [kind |-> "missing", cents |-> 0]
Text    == [kind |-> "text", cents |-> 0]
Huge    == [kind |-> "huge", cents |-> 0]

\* One x value: a date, a category text that does not parse as a date, or a
\* plain number.
XDate(m, y) == [kind |-> "date", month |-> m, year |-> y, text |-> ""]
XText(t)    == [kind |-> "text", month |-> 0, year |-> 0, text |-> t]
XNum(n)     == [kind |-> "num",  month |-> 0, year |-> n, text |-> ""]

\* NaN in a list of x values (what strftime leaves for a value that is no date)
XNaN        == [kind |-> "nan",  month |-> 0, year |-> 0, text |-> ""]

\* what a sentence prints for a month: "Mon YYYY", a text, or the dash
MonthYear(m, y) == [kind |-> "monthyear", month |-> m, year |-> y, text |-> ""]
DashLabel       == [kind |-> "dash", month |-> 0, year |-> 0, text |-> ""]

EpochYear == 1970

\* _month_name: pd.to_datetime(xval).strftime("%b %Y"), str(xval) when that
\* raises.  A number is taken as nanoseconds since the epoch.
month_name(xval) ==
    IF xval.kind = "date" THEN MonthYear(xval.month, xval.year)
    ELSE IF xval.kind = "num" THEN MonthYear(1, EpochYear)
    ELSE xval

\* a/b rounded to an integer as Python's format does (ties to even), a >= 0
RoundHalfEven(a, b) ==
    LET q == a \div b
        r == a % b
    IN  IF 2 * r < b THEN q
        ELSE IF 2 * r > b THEN q + 1
        ELSE IF q % 2 = 0 THEN q ELSE q + 1

FmtThreshold == 1000

\* what a sentence prints for a number: the number the digits denote, in
\* hundredths, or the dash
Shown(c) == [dash |-> FALSE, cents |-> c]
Dash     == [dash |-> TRUE,  cents |-> 0]

\* _fmt_val(v) for v = num / den >= 0: no decimals from 1000 on and for
\* whole numbers, two decimals otherwise
FmtVal(num, den) ==
    IF num >= FmtThreshold * den THEN Shown(100 * RoundHalfEven(num, den))
    ELSE IF num % den = 0 THEN Shown(100 * (num \div den))
    ELSE Shown(RoundHalfEven(100 * num, den))

\* _numeric_series: raises on a huge integer, turns everything that is no
\* number into NaN
SeriesRaises(values) == \E i \in 1..Len(values) : values[i].kind = "huge"
numeric_series(values) ==
    [i \in 1..Len(values) |-> IF values[i].kind = "num" THEN values[i] ELSE Missing]

\* positions holding a number: s.notna()
NotNa(s) == {i \in 1..Len(s) : s[i].kind = "num"}

RECURSIVE SumFrom(_, _)
SumFrom(s, i) ==
    IF i > Len(s) THEN 0
    ELSE (IF s[i].kind = "num" THEN s[i].cents ELSE 0) + SumFrom(s, i + 1)

\* s.max(skipna=True), s.min(skipna=True) in hundredths
SeriesMax(s) == CHOOSE c \in {s[i].cents : i \in NotNa(s)} :
                    \A i \in NotNa(s) : s[i].cents <= c
SeriesMin(s) == CHOOSE c \in {s[i].cents : i \in NotNa(s)} :
                    \A i \in NotNa(s) : s[i].cents >= c

\* s.idxmax(), s.idxmin(): the first position of the extreme value, counted
\* in the series as given (1-based here)
FirstAt(s, c) == CHOOSE i \in NotNa(s) :
                    s[i].cents = c /\ \A j \in NotNa(s) : s[j].cents = c => i <= j
idxmax(s) == FirstAt(s, SeriesMax(s))
idxmin(s) == FirstAt(s, SeriesMin(s))

\* _m(i): the month of position i, the dash when xs is too short
MonthAt(xs, i) == IF i <= Len(xs) THEN month_name(xs[i]) ELSE DashLabel

\* name = tr.name or ("Series" if ttype != "pie" else "Share")
TraceName(tr) ==
    IF tr.name # "" THEN tr.name ELSE IF tr.type # "pie" THEN "Series" ELSE "Share"

\* A sentence.  form is
\*   "stats"            "<name>: peak .. in .., lowest .. in .., average .., total .."
\*   "neutral"          "<name>: no numeric values available."
\*   "composition"      "<name> shows composition - total ..; label: value; .."
\*   "composition_data" "<name> shows composition data."
\*   "raised"           no sentence: an exception left _describe_trace
Sentence(form, name) ==
    [form |-> form, name |-> name, peak |-> Dash, peak_in |-> DashLabel,
     lowest |-> Dash, lowest_in |-> DashLabel, average |-> Dash, total |-> Dash,
     parts |-> <<>>]

\* the label: value pairs of a pie sentence: zip(labels, s_vals) stops at the
\* shorter of the two
pie_parts_by_label(labels, s) ==
    [i \in 1..Len(labels) |->
        [label |-> labels[i],
         value |-> IF i <= Len(s) /\ s[i].kind = "num" THEN FmtVal(s[i].cents, 100) ELSE Dash]]

pie_parts(labels, s) ==
    [i \in 1..(IF Len(labels) <= Len(s) THEN Len(labels) ELSE Len(s)) |->
        [label |-> labels[i],
         value |-> IF s[i].kind = "num" THEN FmtVal(s[i].cents, 100) ELSE Dash]]

describe_pie(tr) ==
    IF tr.labels # <<>> /\ tr.values # <<>>
    THEN IF SeriesRaises(tr.values) THEN Sentence("raised", TraceName(tr))
         ELSE [Sentence("composition", TraceName(tr)) EXCEPT
                  !.parts = pie_parts(tr.labels, numeric_series(tr.values)),
                  !.total = IF NotNa(numeric_series(tr.values)) # {}
                            THEN FmtVal(SumFrom(numeric_series(tr.values), 1), 100)
                            ELSE Dash]
    ELSE Sentence("composition_data", TraceName(tr))

describe_series_needs_numbers(tr) ==
    IF tr.y = <<>> THEN Sentence("neutral", TraceName(tr))
    ELSE IF SeriesRaises(tr.y) \/ NotNa(numeric_series(tr.y)) = {}
    THEN Sentence("raised", TraceName(tr))
    ELSE [Sentence("stats", TraceName(tr)) EXCEPT
             !.peak      = FmtVal(SeriesMax(numeric_series(tr.y)), 100),
             !.peak_in   = MonthAt(tr.x, idxmax(numeric_series(tr.y))),
             !.lowest    = FmtVal(SeriesMin(numeric_series(tr.y)), 100),
             !.lowest_in = MonthAt(tr.x, idxmin(numeric_series(tr.y))),
             !.average   = FmtVal(SumFrom(numeric_series(tr.y), 1),
                                  100 * Cardinality(NotNa(numeric_series(tr.y)))),
             !.total     = FmtVal(SumFrom(numeric_series(tr.y), 1), 100)]

describe_series(tr) ==
    IF tr.y = <<>> THEN Sentence("neutral", TraceName(tr))
    ELSE IF SeriesRaises(tr.y) THEN Sentence("raised", TraceName(tr))
    ELSE IF NotNa(numeric_series(tr.y)) = {} THEN Sentence("neutral", TraceName(tr))
    ELSE LET Stats(s) ==
                 [Sentence("stats", TraceName(tr)) EXCEPT
                     !.peak      = FmtVal(SeriesMax(s), 100),
                     !.peak_in   = MonthAt(tr.x, idxmax(s)),
                     !.lowest    = FmtVal(SeriesMin(s), 100),
                     !.lowest_in = MonthAt(tr.x, idxmin(s)),
                     !.average   = FmtVal(SumFrom(s, 1), 100 * Cardinality(NotNa(s))),
                     !.total     = FmtVal(SumFrom(s, 1), 100)]
         IN  Stats(numeric_series(tr.y))

describe_trace(tr) == IF tr.type = "pie" THEN describe_pie(tr) ELSE describe_series(tr)

-----------------------------------------------------------------------------
(* Trace inputs *)

MaxLen == 3    \* points per trace

\* the numbers 10, 50, 30 and 1000.40
NumberInputs == {Num(1000), Num(5000), Num(100040)}
PointInputs  == NumberInputs \cup {Missing, Text, Huge}

\* all arrays of at most MaxLen points
RECURSIVE ArraysUpTo(_)
ArraysUpTo(n) ==
    IF n = 0 THEN {<<>>}
    ELSE ArraysUpTo(n - 1)
         \cup {Append(a, p) : a \in {b \in ArraysUpTo(n - 1) : Len(b) = n - 1},
                              p \in PointInputs}

CategoryNames == <<"Solar", "Grid", "Gas", "Diesel", "Wind">>
SliceNames    == <<"A", "B", "C", "D", "E">>

\* x arrays offered with a y array of n points: months from January 2024,
\* the same with the last month missing, category texts, and plain numbers
DateXInputs(n) ==
    { [i \in 1..n |-> XDate(i, 2024)],
      [i \in 1..(IF n > 0 THEN n - 1 ELSE 0) |-> XDate(i, 2024)] }

PlainXInputs(n) ==
    { [i \in 1..n |-> XText(CategoryNames[i])],
      [i \in 1..n |-> XNum(2023 + i)] }

Trace(type, name, x, y, labels, values) ==
    [type |-> type, name |-> name, x |-> x, y |-> y, labels |-> labels, values |-> values]

\* the traces drawn over one array of points: a named bar series over the
\* month arrays, an unnamed line or text overlay over the other x arrays
SeriesOver(y) ==
    { Trace("bar", "Grid", x, y, <<>>, <<>>) : x \in DateXInputs(Len(y)) }
    \cup { Trace("scatter", "", x, y, <<>>, <<>>) : x \in PlainXInputs(Len(y)) }

\* the pies over one array of values, with up to MaxLen labels
PiesOver(values) ==
    { Trace("pie", name, <<>>, <<>>, SubSeq(SliceNames, 1, k), values) :
        name \in {"", "Mix"}, k \in 0..MaxLen }

\* the trace of the examples: 10, 50, 30 over January to March
PlainTrace ==
    Trace("bar", "Grid", [i \in 1..3 |-> XDate(i, 2024)],
          <<Num(1000), Num(5000), Num(3000)>>, <<>>, <<>>)

\* the same values over three energy sources
SourceTrace ==
    Trace("bar", "Grid", [i \in 1..3 |-> XText(CategoryNames[i])],
          <<Num(1000), Num(5000), Num(3000)>>, <<>>, <<>>)

\* charts handed to capture_fig under Spec and under SpecPdf
FigInputs ==
    { [raster |-> RasterOk, menus |-> FALSE, title |-> "", data |-> <<PlainTrace>>],
      [raster |-> RasterNever, menus |-> FALSE, title |-> "", data |-> <<SourceTrace>>],
      [raster |-> RasterDeckFail, menus |-> FALSE, title |-> "", data |-> <<PlainTrace>>] }

PdfFigInputs ==
    { [raster |-> r, menus |-> FALSE, title |-> "", data |-> <<SourceTrace>>] :
        r \in {RasterOk, RasterThird, RasterSecond, RasterNever, RasterBomb, RasterSkipped} }

Card == [label |-> "Total", value |-> "10", delta |-> "+5%", delta_color |-> "normal"]

\* (cards_data, section_title) pairs handed to capture_metric_cards
CardInputs ==
    { [cards |-> <<Card>>, title |-> "Yearly Highlights"],
      [cards |-> <<>>,     title |-> ""] }

-----------------------------------------------------------------------------
(* Registry *)

\* dict.get(name, [])
get_charts(name) == IF name \in DOMAIN SECTION_FIGS THEN SECTION_FIGS[name] ELSE <<>>
get_cards(name)  == IF name \in DOMAIN SECTION_CARDS THEN SECTION_CARDS[name] ELSE <<>>

\* d[name] = value on a dict
DictSet(d, name, value) ==
    [k \in (DOMAIN d) \cup {name} |-> IF k = name THEN value ELSE d[k]]

\* d[name] on a defaultdict(list): a missing key reads as the empty list
DictGet(d, name) == IF name \in DOMAIN d THEN d[name] ELSE <<>>

Ids(seq) == [i \in 1..Len(seq) |-> seq[i].id]

\* CURRENT_SECTION[0] or "Page"
ActiveName == IF CURRENT_SECTION = "" THEN DefaultBucket ELSE CURRENT_SECTION

begin_section_keep_cards(name) ==
    /\ CURRENT_SECTION' = name
    /\ SECTION_FIGS' = DictSet(SECTION_FIGS, name, <<>>)
    /\ SECTION_CARDS' = DictSet(SECTION_CARDS, name, DictGet(SECTION_CARDS, name))
    /\ clock' = clock + 1
    /\ lastBegin' = [lastBegin EXCEPT ![name] = clock + 1]
    /\ sinceBegin' = <<>>
    /\ dropped' = Len(get_charts(name)) + Len(get_cards(name))
    /\ UNCHANGED <<caps, last_export>>

begin_section_keep_figs(name) ==
    /\ CURRENT_SECTION' = name
    /\ SECTION_FIGS' = DictSet(SECTION_FIGS, name, DictGet(SECTION_FIGS, name))
    /\ SECTION_CARDS' = DictSet(SECTION_CARDS, name, <<>>)
    /\ clock' = clock + 1
    /\ lastBegin' = [lastBegin EXCEPT ![name] = clock + 1]
    /\ sinceBegin' = <<>>
    /\ dropped' = Len(get_charts(name)) + Len(get_cards(name))
    /\ UNCHANGED <<caps, last_export>>

begin_section(name) ==
    /\ CURRENT_SECTION' = name
    /\ SECTION_FIGS' = DictSet(SECTION_FIGS, name, <<>>)
    /\ SECTION_CARDS' = DictSet(SECTION_CARDS, name, <<>>)
    /\ clock' = clock + 1
    /\ lastBegin' = [lastBegin EXCEPT ![name] = clock + 1]
    /\ sinceBegin' = <<>>
    /\ dropped' = Len(get_charts(name)) + Len(get_cards(name))
    /\ UNCHANGED <<caps, last_export>>

\* the chart object handed to the registry; its identity is the call number
Captured(fig) ==
    [id |-> clock + 1, raster |-> fig.raster, axis |-> "captured", menus |-> fig.menus,
     title |-> fig.title, data |-> fig.data]

capture_fig_no_fallback(fig) ==
    /\ SECTION_FIGS' = DictSet(SECTION_FIGS, CURRENT_SECTION,
                               Append(DictGet(SECTION_FIGS, CURRENT_SECTION), Captured(fig)))
    /\ clock' = clock + 1
    /\ sinceBegin' = Append(sinceBegin, clock + 1)
    /\ UNCHANGED <<SECTION_CARDS, CURRENT_SECTION, caps, last_export, lastBegin, dropped>>

capture_fig_prepend(fig) ==
    /\ SECTION_FIGS' = DictSet(SECTION_FIGS, ActiveName,
                               <<Captured(fig)>> \o DictGet(SECTION_FIGS, ActiveName))
    /\ clock' = clock + 1
    /\ sinceBegin' = Append(sinceBegin, clock + 1)
    /\ UNCHANGED <<SECTION_CARDS, CURRENT_SECTION, caps, last_export, lastBegin, dropped>>

capture_fig(fig) ==
    /\ SECTION_FIGS' = DictSet(SECTION_FIGS, ActiveName,
                               Append(DictGet(SECTION_FIGS, ActiveName), Captured(fig)))
    /\ clock' = clock + 1
    /\ sinceBegin' = Append(sinceBegin, clock + 1)
    /\ UNCHANGED <<SECTION_CARDS, CURRENT_SECTION, caps, last_export, lastBegin, dropped>>

\* EXPORT_CLEAN: hide selectors in exported snapshots
EXPORT_CLEAN == TRUE

\* the chart without its selector menus (layout.updatemenus = []), a new
\* Figure object when there were menus to remove
WithoutMenus(fig) == IF fig.menus THEN [fig EXCEPT !.menus = FALSE] ELSE fig

\* render_fig_cached(fig_dict, export_clean): a Figure rebuilt from the dict
render_fig_cached(fig, export_clean) == IF export_clean THEN WithoutMenus(fig) ELSE fig

\* render_fig(fig): on the cached path the rebuilt chart is displayed and
\* fig itself goes to the registry; when the cached rendering raises, fig is
\* cleaned, displayed and captured
render_fig(fig, cached) ==
    LET Leaves(displayed, kept) ==
            /\ shown' = [at |-> clock + 1, menus |-> displayed.menus, data |-> displayed.data]
            /\ SECTION_FIGS' = DictSet(SECTION_FIGS, ActiveName,
                                       Append(DictGet(SECTION_FIGS, ActiveName), Captured(kept)))
            /\ clock' = clock + 1
            /\ sinceBegin' = Append(sinceBegin, clock + 1)
            /\ UNCHANGED <<SECTION_CARDS, CURRENT_SECTION, DOCX_OK, PDF_MERGE_OK,
                           pptx_installed, script, published, active_source_path, gate,
                           compiled, last_export, lastBegin, dropped>>
    IN  IF cached
        THEN Leaves(render_fig_cached(fig, EXPORT_CLEAN), fig)
        ELSE Leaves(IF EXPORT_CLEAN THEN WithoutMenus(fig) ELSE fig,
                    IF EXPORT_CLEAN THEN WithoutMenus(fig) ELSE fig)

capture_metric_cards_to_first(group) ==
    /\ SECTION_CARDS' = DictSet(SECTION_CARDS, section_order[1],
                                Append(DictGet(SECTION_CARDS, section_order[1]),
                                       [id |-> clock + 1, cards |-> group.cards, title |-> group.title]))
    /\ clock' = clock + 1
    /\ UNCHANGED <<SECTION_FIGS, CURRENT_SECTION, caps, last_export, lastBegin, sinceBegin, dropped>>

capture_metric_cards(group) ==
    /\ SECTION_CARDS' = DictSet(SECTION_CARDS, ActiveName,
                                Append(DictGet(SECTION_CARDS, ActiveName),
                                       [id |-> clock + 1, cards |-> group.cards, title |-> group.title]))
    /\ clock' = clock + 1
    /\ UNCHANGED <<SECTION_FIGS, CURRENT_SECTION, caps, last_export, lastBegin, sinceBegin, dropped>>

-----------------------------------------------------------------------------
(* Date-label normalisation applied to a chart right before rasterization *)

\* pd.to_datetime(..., errors="coerce") followed by strftime("%b %Y") on one
\* x value: a number is taken as nanoseconds since the epoch, a month-year
\* text parses to its own month, anything else becomes NaT and prints as NaN
TickOf(xval) ==
    IF xval.kind = "date" THEN MonthYear(xval.month, xval.year)
    ELSE IF xval.kind = "num" THEN MonthYear(1, EpochYear)
    ELSE IF xval.kind = "monthyear" THEN xval
    ELSE XNaN

\* a pie has no x attribute
HasX(tr) == tr.type # "pie"

\* ticktext: the month-year texts of the first trace's x values
TickText(fig) == [j \in 1..Len(fig.data[1].x) |-> TickOf(fig.data[1].x[j])]

\* _force_month_labels mutates the chart in place: when some x value of the
\* first trace parses as a date, the x of every trace that has x values
\* becomes the first trace's ticktext and the x axis becomes a category axis
\* with that ticktext
force_month_labels(fig) ==
    IF /\ fig.data # <<>>
       /\ HasX(fig.data[1])
       /\ \E j \in 1..Len(fig.data[1].x) : TickOf(fig.data[1].x[j]) # XNaN
    THEN [fig EXCEPT
            !.axis = "category",
            !.data = [k \in 1..Len(fig.data) |->
                        IF HasX(fig.data[k]) /\ fig.data[k].x # <<>>
                        THEN [fig.data[k] EXCEPT !.x = TickText(fig)]
                        ELSE fig.data[k]]]
    ELSE fig

\* the first k charts of a list after _force_month_labels ran on each of them
Relabelled(figs, k) ==
    [i \in 1..Len(figs) |-> IF i <= k THEN force_month_labels(figs[i]) ELSE figs[i]]

-----------------------------------------------------------------------------
(* PDF page of one section: build_section_pdf *)

\* the nested try/except chain over the presets, from preset number k on:
\* every preset but the last is tried inside a try, the last one is not
RECURSIVE PresetChain_skips_second(_, _)
PresetChain_skips_second(raster, k) ==
    IF Presets[k] \notin raster.raises
    THEN [log |-> <<Presets[k]>>, ok |-> TRUE, scale |-> Presets[k]]
    ELSE IF k >= Len(Presets)
    THEN [log |-> <<Presets[k]>>, ok |-> FALSE, scale |-> 0]
    ELSE LET k2   == IF k = 1 /\ Len(Presets) >= 3 THEN 3 ELSE k + 1
             rest == PresetChain_skips_second(raster, k2)
         IN  [log |-> <<Presets[k]>> \o rest.log, ok |-> rest.ok, scale |-> rest.scale]

RECURSIVE PresetChain(_, _)
PresetChain(raster, k) ==
    IF Presets[k] \notin raster.raises
    THEN [log |-> <<Presets[k]>>, ok |-> TRUE, scale |-> Presets[k]]
    ELSE IF k >= Len(Presets)
    THEN [log |-> <<Presets[k]>>, ok |-> FALSE, scale |-> 0]
    ELSE LET rest == PresetChain(raster, k + 1)
         IN  [log |-> <<Presets[k]>> \o rest.log, ok |-> rest.ok, scale |-> rest.scale]

\* body of the "for fig in figs" loop for one chart:
\*   outcome "image"    the preset image was read and kept
\*           "fallback" the reader rejected it, the scale-1 image was kept
\*           "skipped"  the scale-1 fallback failed too (continue)
\*           "raised"   the last preset raised: the exception leaves the function
\* attempts lists the scale of every pio.to_image call made for the chart,
\* warnings counts the lines printed for it
RasterizeFig(fig) ==
    LET c == PresetChain(fig.raster, 1) IN
    IF ~c.ok
    THEN [fig |-> fig.id, attempts |-> c.log, outcome |-> "raised", scale |-> 0, warnings |-> 0]
    ELSE IF c.scale \notin fig.raster.bombs
    THEN [fig |-> fig.id, attempts |-> c.log, outcome |-> "image", scale |-> c.scale, warnings |-> 0]
    ELSE IF FallbackScale \notin (fig.raster.raises \cup fig.raster.bombs)
    THEN [fig |-> fig.id, attempts |-> c.log \o <<FallbackScale>>, outcome |-> "fallback",
          scale |-> FallbackScale, warnings |-> 1]
    ELSE [fig |-> fig.id, attempts |-> c.log \o <<FallbackScale>>, outcome |-> "skipped",
          scale |-> 0, warnings |-> 2]

\* the loop over figs from position i: stops at the first chart whose
\* rasterization raises
RECURSIVE RasterizeAll(_, _)
RasterizeAll(figs, i) ==
    IF i > Len(figs) THEN <<>>
    ELSE LET r == RasterizeFig(figs[i]) IN
         IF r.outcome = "raised" THEN <<r>>
         ELSE <<r>> \o RasterizeAll(figs, i + 1)

HasImage(r) == r.outcome \in {"image", "fallback"}

\* cols, rows for n images
GridFor_four_as_six(n) ==
    IF n = 1 THEN <<1, 1>>
    ELSE IF n \in {2, 3} THEN <<2, 2>>
    ELSE IF n \in {4, 5, 6} THEN <<3, 2>>
    ELSE <<3, 3>>

GridFor(n) ==
    IF n = 1 THEN <<1, 1>>
    ELSE IF n \in {2, 3} THEN <<2, 2>>
    ELSE IF n = 4 THEN <<2, 2>>
    ELSE IF n \in {5, 6} THEN <<3, 2>>
    ELSE IF n \in {7, 8, 9} THEN <<3, 3>>
    ELSE <<3, 3>>

\* the nested "for r in range(rows): for ccol in range(cols)" loop, walked
\* cell by cell in row-major order; cell is the 0-based cell number and idx
\* the 0-based index of the next image
RECURSIVE PlaceCells_column_major(_, _, _, _, _)
PlaceCells_column_major(images, cols, rows, cell, idx) ==
    IF cell >= cols * rows THEN <<>>
    ELSE IF idx >= Len(images) THEN <<>>
    ELSE <<[fig |-> images[idx + 1].fig, scale |-> images[idx + 1].scale,
            row |-> cell % rows, col |-> cell \div rows]>>
         \o PlaceCells_column_major(images, cols, rows, cell + 1, idx + 1)

RECURSIVE PlaceCells(_, _, _, _, _)
PlaceCells(images, cols, rows, cell, idx) ==
    IF cell >= cols * rows THEN <<>>
    ELSE IF idx >= Len(images)
    THEN PlaceCells(images, cols, rows, cell + 1, idx)
    ELSE <<[fig |-> images[idx + 1].fig, scale |-> images[idx + 1].scale,
            row |-> cell \div cols, col |-> cell % cols]>>
         \o PlaceCells(images, cols, rows, cell + 1, idx + 1)

\* card groups that get a row of tiles: empty groups and groups without
\* cards are passed over
DrawnCards(cards_data) == SelectSeq(cards_data, LAMBDA g : g.cards # <<>>)

\* Page geometry.  Lengths are kept in hundredths of a point; a length that
\* the code divides by a count is kept as numerator and denominator.
Pt(n) == 100 * n

\* landscape(A4) = 841.89 x 595.28 points
page_w == 84189
page_h == 59528

M_L == 20
M_R == 20
M_B == 20
header_h == 60
TopGap == 20
TitleDrop == 25
CardSpacing == 30
card_height == 40
TileStep == 8
GroupGap == 10
AreaTrim == 1
CellGap == 3

usable_w == page_w - Pt(M_L) - Pt(M_R)

\* startswith('+') / startswith('-') over the delta texts in use
PlusDeltas  == {"+5%", "+120"}
MinusDeltas == {"-5%", "-120"}

\* the colour the delta text is drawn in: chosen by delta_color alone
DeltaFill(card) ==
    IF card.delta = "" THEN "none"
    ELSE IF card.delta_color = "inverse" THEN "green"
    ELSE "red"

DeltaArrow(card) ==
    IF card.delta \in PlusDeltas THEN "up"
    ELSE IF card.delta \in MinusDeltas THEN "down"
    ELSE "none"

\* the tiles of one group drawn with its top edge at top: tile i (from 0) has
\* x = M_L + i * (card_width + 8) and width card_width = (usable_w - 30) / k;
\* x_k and w_k are x and the width multiplied by k
TileRow(cards, top) ==
    [i \in 1..Len(cards) |->
        [x_k   |-> Pt(M_L) * Len(cards)
                   + (i - 1) * ((usable_w - Pt(CardSpacing)) + Pt(TileStep) * Len(cards)),
         w_k   |-> usable_w - Pt(CardSpacing),
         k     |-> Len(cards),
         y     |-> top - Pt(card_height),
         fill  |-> DeltaFill(cards[i]),
         arrow |-> DeltaArrow(cards[i])]]

\* the top edge of the tiles of a group met at current_y: below the title
\* line when the group has a title
TilesTop(group, current_y) ==
    IF group.title # "" THEN current_y - Pt(TitleDrop) ELSE current_y

\* the rows of tiles of the card groups from group i on, starting at current_y
RECURSIVE CardRows(_, _, _)
CardRows(cards_data, i, current_y) ==
    IF i > Len(cards_data) THEN <<>>
    ELSE IF cards_data[i].cards = <<>> THEN CardRows(cards_data, i + 1, current_y)
    ELSE << TileRow(cards_data[i].cards, TilesTop(cards_data[i], current_y)) >>
         \o CardRows(cards_data, i + 1,
                     TilesTop(cards_data[i], current_y) - Pt(card_height) - Pt(GroupGap))

\* current_y after the card groups from group i on
RECURSIVE YBelowCards(_, _, _)
YBelowCards(cards_data, i, current_y) ==
    IF i > Len(cards_data) THEN current_y
    ELSE IF cards_data[i].cards = <<>> THEN YBelowCards(cards_data, i + 1, current_y)
    ELSE YBelowCards(cards_data, i + 1,
                     TilesTop(cards_data[i], current_y) - Pt(card_height) - Pt(GroupGap))

ContentTop == page_h - Pt(header_h) - Pt(TopGap)

\* the chart area under current_y for a grid of cols x rows cells:
\* cell_w = cell_w_n / cols and cell_h = cell_h_n / rows
ChartArea(current_y, cols, rows) ==
    [h        |-> current_y - Pt(M_B) - Pt(AreaTrim),
     cell_w_n |-> usable_w - (cols - 1) * Pt(CellGap),
     cols     |-> cols,
     cell_h_n |-> current_y - Pt(M_B) - Pt(AreaTrim) - (rows - 1) * Pt(CellGap),
     rows     |-> rows]

NoArea == [h |-> 0, cell_w_n |-> 0, cols |-> 0, cell_h_n |-> 0, rows |-> 0]

\* what an export call leaves behind; an exporter fills in its own fields
NotRun == [status |-> "not_run", pages |-> <<>>, raster |-> <<>>, touched |-> 0,
           paras |-> <<>>, slides |-> <<>>]

\* build_section_pdf on given chart and card lists.
\*   status "bytes"      the page was produced (pages has exactly one page)
\*          "Exception"  an exception left the function (no page)
\*   raster  per-chart rasterization records, in processing order
\*   touched number of charts _force_month_labels ran on
SectionPdf(section_name, figs, cards_data) ==
    LET Page(images, grid) ==
            [section |-> section_name,
             cards   |-> DrawnCards(cards_data),
             tiles   |-> CardRows(cards_data, 1, ContentTop),
             area    |-> IF figs = <<>> THEN NoArea
                         ELSE ChartArea(YBelowCards(cards_data, 1, ContentTop),
                                        grid[1], grid[2]),
             images  |-> images,
             grid    |-> IF figs = <<>> THEN <<0, 0>> ELSE grid,
             drawn   |-> IF figs = <<>> THEN <<>>
                         ELSE PlaceCells(images, grid[1], grid[2], 0, 0)]
        Laid(images) == Page(images, GridFor(Len(images)))
        Result(raster) ==
            IF raster # <<>> /\ raster[Len(raster)].outcome = "raised"
            THEN [NotRun EXCEPT !.status = "Exception", !.raster = raster,
                                !.touched = Len(raster)]
            ELSE [NotRun EXCEPT !.status = "bytes",
                                !.pages = <<Laid(SelectSeq(raster, HasImage))>>,
                                !.raster = raster, !.touched = Len(raster)]
    IN  Result(RasterizeAll(figs, 1))


\* a section's chart list in a dict after an export relabelled its first k charts
TouchDict(d, name, k) ==
    IF name \in DOMAIN d THEN [d EXCEPT ![name] = Relabelled(d[name], k)] ELSE d

\* build_section_pdf(section_name, ...) as a call on the registry
build_section_pdf(section_name) ==
    LET Leaves(res) ==
            /\ last_export' = [key |-> section_name, pdf |-> res, docx |-> NotRun,
                               ppt |-> NotRun]
            /\ SECTION_FIGS' = TouchDict(SECTION_FIGS, section_name, res.touched)
            /\ UNCHANGED <<SECTION_CARDS, CURRENT_SECTION, caps, history>>
    IN  Leaves(SectionPdf(section_name, get_charts(section_name), get_cards(section_name)))

-----------------------------------------------------------------------------
(* Narrative document: build_section_docx / build_report_docx *)

\* the bullets under a chart's heading: one sentence per trace and the
\* closing note, or the single "No chart data available" bullet
Bullets(fig) ==
    IF fig.data = <<>> THEN << Sentence("no_chart_data", "") >>
    ELSE [k \in 1..Len(fig.data) |-> describe_trace(fig.data[k])]
         \o << Sentence("note", "") >>

\* one headed entry per chart, numbered from 1 within its section
DocxParas(section_name, figs) ==
    [i \in 1..Len(figs) |->
        [section |-> section_name, number |-> i, fig |-> figs[i].id,
         bullets |-> Bullets(figs[i])]]

\* _describe_trace is called with no handler around it: an exception in it
\* leaves the exporter
DocxRaises(figs) ==
    \E i \in 1..Len(figs) : \E k \in 1..Len(figs[i].data) :
        describe_trace(figs[i].data[k]).form = "raised"

SectionDocx(section_name, figs) ==
    IF ~DOCX_OK
    THEN [NotRun EXCEPT !.status = "RuntimeError"]
    ELSE IF DocxRaises(figs)
    THEN [NotRun EXCEPT !.status = "Exception"]
    ELSE [NotRun EXCEPT !.status = "bytes", !.paras = DocxParas(section_name, figs)]

\* build_section_docx(section_name, ...) as a call on the registry
build_section_docx(section_name) ==
    /\ last_export' = [key |-> section_name, pdf |-> NotRun,
                       docx |-> SectionDocx(section_name, get_charts(section_name)),
                       ppt |-> NotRun]
    /\ UNCHANGED <<SECTION_FIGS, SECTION_CARDS, CURRENT_SECTION, caps, history>>

\* the loop over section_order from position i; sections without charts get
\* no heading
RECURSIVE ReportDocxParas(_, _)
ReportDocxParas(figsDict, i) ==
    IF i > Len(section_order) THEN <<>>
    ELSE DocxParas(section_order[i], DictGet(figsDict, section_order[i]))
         \o ReportDocxParas(figsDict, i + 1)

\* the charts of the listed sections, section after section
RECURSIVE ReportDocxFigs(_, _)
ReportDocxFigs(figsDict, i) ==
    IF i > Len(section_order) THEN <<>>
    ELSE DictGet(figsDict, section_order[i]) \o ReportDocxFigs(figsDict, i + 1)

ReportDocx(figsDict) ==
    IF ~DOCX_OK
    THEN [NotRun EXCEPT !.status = "RuntimeError"]
    ELSE IF DocxRaises(ReportDocxFigs(figsDict, 1))
    THEN [NotRun EXCEPT !.status = "Exception"]
    ELSE [NotRun EXCEPT !.status = "bytes", !.paras = ReportDocxParas(figsDict, 1)]

-----------------------------------------------------------------------------
(* Slide deck: build_section_ppt_brand / build_report_ppt_brand *)

\* _PPTX_OK: set by the guarded import at the top of the script
PPTX_OK == pptx_installed

\* _ppt_add_graph_slide: the chart is rasterized at scale 2, else with the
\* renderer's defaults; when both raise the exception leaves the exporter
DeckRaster(fig) ==
    IF DeckScale \notin fig.raster.raises
    THEN [fig |-> fig.id, attempts |-> <<DeckScale>>, outcome |-> "image",
          scale |-> DeckScale, warnings |-> 0]
    ELSE IF DeckDefaultScale \notin fig.raster.raises
    THEN [fig |-> fig.id, attempts |-> <<DeckScale, DeckDefaultScale>>, outcome |-> "image",
          scale |-> DeckDefaultScale, warnings |-> 0]
    ELSE [fig |-> fig.id, attempts |-> <<DeckScale, DeckDefaultScale>>, outcome |-> "raised",
          scale |-> 0, warnings |-> 0]

RECURSIVE DeckRasterAll(_, _)
DeckRasterAll(figs, i) ==
    IF i > Len(figs) THEN <<>>
    ELSE LET r == DeckRaster(figs[i]) IN
         IF r.outcome = "raised" THEN <<r>>
         ELSE <<r>> \o DeckRasterAll(figs, i + 1)

\* a bullet of an explanation slide.  form is
\*   "overview"      "Overview: <title>"
\*   "stats"         "<name>: latest .. (delta ..); avg .., range ..-.."
\*   "insufficient"  "<name>: values shown; insufficient numeric history for stats."
\*   "filler"        "No significant variability detected; continue monitoring."
\*   "no_data"       "No data available."
\* the numbers are the integers printed by the format ",.0f"
Point(form, name) ==
    [form |-> form, name |-> name, latest |-> 0, delta |-> 0, avg |-> 0, mn |-> 0, mx |-> 0]

\* np.asarray(tr.y, dtype=float) followed by the isfinite filter: no array
\* for a pie (no y attribute) and when one value is a text or beyond float
\* range (the conversion raises), the numbers without the missing values
\* otherwise
FiniteY(tr) ==
    IF ~HasX(tr) \/ \E j \in 1..Len(tr.y) : tr.y[j].kind \in {"text", "huge"}
    THEN <<>>
    ELSE SelectSeq(tr.y, LAMBDA v : v.kind = "num")

\* format(v, ",.0f") for v = num / den of either sign
RoundSigned(num, den) ==
    IF num >= 0 THEN RoundHalfEven(num, den) ELSE 0 - RoundHalfEven(0 - num, den)

SummaryOf(tr) ==
    LET Stats(y) ==
            IF y = <<>>
            THEN Point("insufficient", IF tr.name # "" THEN tr.name ELSE "Series")
            ELSE [Point("stats", IF tr.name # "" THEN tr.name ELSE "Series") EXCEPT
                     !.latest = RoundSigned(y[Len(y)].cents, 100),
                     !.delta  = IF Len(y) > 1
                                THEN RoundSigned(y[Len(y)].cents - y[Len(y) - 1].cents, 100)
                                ELSE 0,
                     !.avg    = RoundSigned(SumFrom(y, 1), 100 * Len(y)),
                     !.mn     = RoundSigned(SeriesMin(y), 100),
                     !.mx     = RoundSigned(SeriesMax(y), 100)]
    IN  Stats(FiniteY(tr))

FillBelow == 2

figure_summary_points_fills_once(fig) ==
    LET Filled(pts) ==
            IF Len(pts) < 1 THEN Append(pts, Point("filler", "")) ELSE pts
    IN  Filled((IF fig.title # "" THEN << Point("overview", fig.title) >> ELSE <<>>)
               \o [k \in 1..Len(fig.data) |-> SummaryOf(fig.data[k])])

\* _figure_summary_points: the title, one point per trace, and the filler
\* when that makes fewer than two points
figure_summary_points(fig) ==
    LET Filled(pts) ==
            IF Len(pts) < FillBelow THEN Append(pts, Point("filler", "")) ELSE pts
    IN  Filled((IF fig.title # "" THEN << Point("overview", fig.title) >> ELSE <<>>)
               \o [k \in 1..Len(fig.data) |-> SummaryOf(fig.data[k])])

MaxBullets == 14

\* _ppt_add_explain_slide: at most MaxBullets bullets, "No data available."
\* for an empty list
ExplainBullets(bullets) ==
    IF bullets = <<>> THEN << Point("no_data", "") >>
    ELSE SubSeq(bullets, 1, IF Len(bullets) < MaxBullets THEN Len(bullets) ELSE MaxBullets)

RECURSIVE DeckChartSlides_explain_first(_, _, _, _)
DeckChartSlides_explain_first(figs, i, idx, total) ==
    IF i > Len(figs) THEN <<>>
    ELSE << [kind |-> "explain", fig |-> figs[i].id, idx |-> idx,     total |-> total,
             bullets |-> ExplainBullets(figure_summary_points(figs[i]))],
            [kind |-> "graph",   fig |-> figs[i].id, idx |-> idx + 1, total |-> total,
             bullets |-> <<>>] >>
         \o DeckChartSlides_explain_first(figs, i + 1, idx + 2, total)

\* slides of a deck over figs: title, then a chart slide and an explanation
\* slide per chart, then the conclusion; idx runs from 1, total is fixed up front
RECURSIVE DeckChartSlides(_, _, _, _)
DeckChartSlides(figs, i, idx, total) ==
    IF i > Len(figs) THEN <<>>
    ELSE << [kind |-> "graph",   fig |-> figs[i].id, idx |-> idx,     total |-> total,
             bullets |-> <<>>],
            [kind |-> "explain", fig |-> figs[i].id, idx |-> idx + 1, total |-> total,
             bullets |-> ExplainBullets(figure_summary_points(figs[i]))] >>
         \o DeckChartSlides(figs, i + 1, idx + 2, total)

Deck(figs) ==
    LET Slides(total) ==
            << [kind |-> "title", fig |-> 0, idx |-> 1, total |-> total, bullets |-> <<>>] >>
            \o DeckChartSlides(figs, 1, 2, total)
            \o << [kind |-> "conclusion", fig |-> 0, idx |-> 2 + 2 * Len(figs),
                   total |-> total, bullets |-> <<>>] >>
        Result(raster) ==
            IF raster # <<>> /\ raster[Len(raster)].outcome = "raised"
            THEN [NotRun EXCEPT !.status = "Exception", !.raster = raster,
                                !.touched = Len(raster)]
            ELSE [NotRun EXCEPT !.status = "bytes",
                                !.slides = Slides(1 + 2 * Len(figs) + 1),
                                !.raster = raster, !.touched = Len(raster)]
    IN  Result(DeckRasterAll(figs, 1))

SectionDeck_requires_charts(figs) ==
    IF ~PPTX_OK \/ figs = <<>> THEN [NotRun EXCEPT !.status = "RuntimeError"] ELSE Deck(figs)

SectionDeck(figs) ==
    IF ~PPTX_OK THEN [NotRun EXCEPT !.status = "RuntimeError"] ELSE Deck(figs)

\* build_section_ppt_brand(section_name, ...) as a call on the registry
build_section_ppt_brand(section_name) ==
    LET Leaves(ppt) ==
            /\ last_export' = [key |-> section_name, pdf |-> NotRun, docx |-> NotRun,
                               ppt |-> ppt]
            /\ SECTION_FIGS' = TouchDict(SECTION_FIGS, section_name, ppt.touched)
            /\ UNCHANGED <<SECTION_CARDS, CURRENT_SECTION, caps, history>>
    IN  Leaves(SectionDeck(get_charts(section_name)))

RECURSIVE ReportFigs_with_forecasting(_, _)
ReportFigs_with_forecasting(figsDict, i) ==
    IF i > Len(section_order) THEN DictGet(figsDict, "Forecasting")
    ELSE DictGet(figsDict, section_order[i]) \o ReportFigs_with_forecasting(figsDict, i + 1)

\* the flattened (section, chart) list of the consolidated deck
RECURSIVE ReportFigs(_, _)
ReportFigs(figsDict, i) ==
    IF i > Len(section_order) THEN <<>>
    ELSE DictGet(figsDict, section_order[i]) \o ReportFigs(figsDict, i + 1)

ReportDeck(figsDict) ==
    IF ~PPTX_OK THEN [NotRun EXCEPT !.status = "RuntimeError"]
    ELSE LET Over(figs) == IF figs = <<>> THEN [NotRun EXCEPT !.status = "RuntimeError"]
                           ELSE Deck(figs)
         IN  Over(ReportFigs(figsDict, 1))

\* the registry's charts after a consolidated deck relabelled the first k
\* charts of the flattened list, walking section_order from position i
RECURSIVE TouchReport(_, _, _)
TouchReport(figsDict, i, k) ==
    IF i > Len(section_order) \/ k <= 0 THEN figsDict
    ELSE TouchReport(TouchDict(figsDict, section_order[i], k), i + 1,
                     k - Len(DictGet(figsDict, section_order[i])))

-----------------------------------------------------------------------------
(* Consolidated PDF: build_report_pdf_same_style *)

RECURSIVE ReportPdfLoop_without_cards(_, _, _, _, _)
ReportPdfLoop_without_cards(figsDict, cardsDict, i, pages, raster) ==
    IF i > Len(section_order)
    THEN IF pages = <<>>
         THEN [res  |-> [NotRun EXCEPT !.status = "RuntimeError", !.raster = raster],
               figs |-> figsDict]
         ELSE [res  |-> [NotRun EXCEPT !.status = "bytes", !.pages = pages, !.raster = raster],
               figs |-> figsDict]
    ELSE LET After(one, d) ==
                 IF one.status = "Exception"
                 THEN [res  |-> [NotRun EXCEPT !.status = "Exception",
                                               !.raster = raster \o one.raster],
                       figs |-> d]
                 ELSE ReportPdfLoop_without_cards(d, cardsDict, i + 1, pages \o one.pages,
                                                  raster \o one.raster)
             Section(sec, one) == After(one, TouchDict(figsDict, sec, one.touched))
             Visit(sec) ==
                 IF DictGet(figsDict, sec) = <<>>
                 THEN ReportPdfLoop_without_cards(figsDict, cardsDict, i + 1, pages, raster)
                 ELSE Section(sec, SectionPdf(sec, DictGet(figsDict, sec), <<>>))
         IN  Visit(section_order[i])

\* the loop over the sections from position i, with the pages and the
\* rasterization records gathered so far; a section without charts is passed
\* over, an exception in a section's page leaves the whole export
RECURSIVE ReportPdfLoop(_, _, _, _, _)
ReportPdfLoop(figsDict, cardsDict, i, pages, raster) ==
    IF i > Len(section_order)
    THEN IF pages = <<>>
         THEN [res  |-> [NotRun EXCEPT !.status = "RuntimeError", !.raster = raster],
               figs |-> figsDict]
         ELSE [res  |-> [NotRun EXCEPT !.status = "bytes", !.pages = pages, !.raster = raster],
               figs |-> figsDict]
    ELSE LET After(one, d) ==
                 IF one.status = "Exception"
                 THEN [res  |-> [NotRun EXCEPT !.status = "Exception",
                                               !.raster = raster \o one.raster],
                       figs |-> d]
                 ELSE ReportPdfLoop(d, cardsDict, i + 1, pages \o one.pages,
                                    raster \o one.raster)
             Section(sec, one) == After(one, TouchDict(figsDict, sec, one.touched))
             Visit(sec) ==
                 IF DictGet(figsDict, sec) = <<>>
                 THEN ReportPdfLoop(figsDict, cardsDict, i + 1, pages, raster)
                 ELSE Section(sec, SectionPdf(sec, DictGet(figsDict, sec),
                                              DictGet(cardsDict, sec)))
         IN  Visit(section_order[i])

\* PdfWriter is only bound when PyPDF2 imported: without it the first
\* statement raises a NameError
ReportPdf(figsDict, cardsDict) ==
    IF ~PDF_MERGE_OK
    THEN [res |-> [NotRun EXCEPT !.status = "Exception"], figs |-> figsDict]
    ELSE ReportPdfLoop(figsDict, cardsDict, 1, <<>>, <<>>)

-----------------------------------------------------------------------------
(* The export row: PDF, DOCX and deck in turn *)

\* section_key.strip().lower() == "report", over the spellings in use
ReportSpellings == {"Report", "report", " Report", "REPORT"}
is_report(section_key) == section_key \in ReportSpellings

\* Each of the three blocks catches RuntimeError only: any other exception
\* ends the row.  figs is the chart dict as the blocks leave it.
ExportRow(section_key, figsDict, cardsDict) ==
    LET OnePage(one) ==
            [res |-> one, figs |-> TouchDict(figsDict, section_key, one.touched)]
        Row(pdf, d1, docx, ppt) ==
            IF pdf.status = "Exception"
            THEN [out  |-> [key |-> section_key, pdf |-> pdf, docx |-> NotRun,
                            ppt |-> NotRun],
                  figs |-> d1]
            ELSE IF docx.status = "Exception"
            THEN [out  |-> [key |-> section_key, pdf |-> pdf, docx |-> docx,
                            ppt |-> NotRun],
                  figs |-> d1]
            ELSE [out  |-> [key |-> section_key, pdf |-> pdf, docx |-> docx, ppt |-> ppt],
                  figs |-> IF is_report(section_key) THEN TouchReport(d1, 1, ppt.touched)
                           ELSE TouchDict(d1, section_key, ppt.touched)]
        Documents(pdf, d1) ==
            Row(pdf, d1,
                IF is_report(section_key) THEN ReportDocx(d1)
                ELSE SectionDocx(section_key, DictGet(d1, section_key)),
                IF is_report(section_key) THEN ReportDeck(d1)
                ELSE SectionDeck(DictGet(d1, section_key)))
        AfterPdf(p) == Documents(p.res, p.figs)
    IN  AfterPdf(IF is_report(section_key)
                 THEN ReportPdf(figsDict, cardsDict)
                 ELSE OnePage(SectionPdf(section_key, DictGet(figsDict, section_key),
                                         DictGet(cardsDict, section_key))))

\* str(i) of the chart numbers a section reaches
Digits == <<"1", "2", "3", "4", "5", "6", "7", "8", "9">>

\* fig_copy = go.Figure(fig), titled "<sec> - Figure <i>" when the chart has
\* no title (the dash is U+2014 in the source): a new object, fig is not written
ReportCopy(fig, sec, i) ==
    [fig EXCEPT !.title = IF fig.title = "" THEN sec \o " - Figure " \o Digits[i]
                          ELSE fig.title]

\* the copies in the order the two loops of the tab make them, from chart i of
\* section s on
RECURSIVE ReportCopies(_, _, _)
ReportCopies_first_of_each(figsDict, s, i) ==
    IF s > Len(section_order) THEN <<>>
    ELSE IF i > Len(DictGet(figsDict, section_order[s])) \/ i > 1
    THEN ReportCopies(figsDict, s + 1, 1)
    ELSE <<ReportCopy(DictGet(figsDict, section_order[s])[i], section_order[s], i)>>
         \o ReportCopies(figsDict, s, i + 1)

ReportCopies(figsDict, s, i) ==
    IF s > Len(section_order) THEN <<>>
    ELSE IF i > Len(DictGet(figsDict, section_order[s]))
    THEN ReportCopies(figsDict, s + 1, 1)
    ELSE <<ReportCopy(DictGet(figsDict, section_order[s])[i], section_order[s], i)>>
         \o ReportCopies(figsDict, s, i + 1)

\* number of charts the seven sections hold
SourceCount == Len(ReportCopies(SECTION_FIGS, 1, 1))

\* the Report tab: begin_section("Report"), render_fig of a copy of every
\* chart of the seven sections (paths[k]: the k-th copy is rendered on the
\* cached path), then the export row of the consolidated report
tab_report(paths) ==
    LET Kept(copy, cached) == IF cached \/ ~EXPORT_CLEAN THEN copy ELSE WithoutMenus(copy)
        Displayed(copy, cached) ==
            IF cached THEN render_fig_cached(copy, EXPORT_CLEAN)
            ELSE IF EXPORT_CLEAN THEN WithoutMenus(copy) ELSE copy
        Screen(copy, cached, at) ==
            [at |-> at, menus |-> Displayed(copy, cached).menus,
             data |-> Displayed(copy, cached).data]
        Row(figs, cards, row) ==
            /\ compiled' = [at |-> clock', figs |-> figs, cards |-> cards]
            /\ SECTION_CARDS' = cards
            /\ SECTION_FIGS' = row.figs
            /\ last_export' = row.out
        Leaves(copies, figs, cards) ==
            /\ CURRENT_SECTION' = ReportKey
            /\ clock' = clock + 1 + Len(copies)
            /\ lastBegin' = [lastBegin EXCEPT ![ReportKey] = clock + 1]
            /\ sinceBegin' = [k \in 1..Len(copies) |-> clock + 1 + k]
            /\ dropped' = Len(get_charts(ReportKey)) + Len(get_cards(ReportKey))
            /\ shown' = IF copies = <<>> THEN shown
                        ELSE Screen(copies[Len(copies)], paths[Len(copies)],
                                    clock + 1 + Len(copies))
            /\ Row(figs, cards, ExportRow(ReportKey, figs, cards))
            /\ UNCHANGED <<DOCX_OK, PDF_MERGE_OK, pptx_installed, script, published,
                           active_source_path, gate>>
        Pass(copies) ==
            Leaves(copies,
                   DictSet(SECTION_FIGS, ReportKey,
                           [k \in 1..Len(copies) |->
                               [Kept(copies[k], paths[k]) EXCEPT !.id = clock + 1 + k]]),
                   DictSet(SECTION_CARDS, ReportKey, <<>>))
    IN  Pass(ReportCopies(SECTION_FIGS, 1, 1))

render_export_row_indexing(section_key) ==
    LET Leaves(row) ==
            /\ last_export' = row.out
            /\ SECTION_FIGS' = DictSet(row.figs, section_key, DictGet(row.figs, section_key))
            /\ UNCHANGED <<SECTION_CARDS, CURRENT_SECTION, caps, history>>
    IN  Leaves(ExportRow(section_key, SECTION_FIGS, SECTION_CARDS))

render_export_row(section_key) ==
    LET Leaves(row) ==
            /\ last_export' = row.out
            /\ SECTION_FIGS' = row.figs
            /\ UNCHANGED <<SECTION_CARDS, CURRENT_SECTION, caps, history>>
    IN  Leaves(ExportRow(section_key, SECTION_FIGS, SECTION_CARDS))

-----------------------------------------------------------------------------
(* Specifications *)

NoExport == [key |-> "", pdf |-> NotRun, docx |-> NotRun, ppt |-> NotRun]

\* nothing displayed yet; no sidebar run yet
NoChart == [at |-> 0, menus |-> FALSE, title |-> "", data |-> <<>>]
NoGate  == [mode |-> "", expected |-> "", pwd |-> "", up |-> 0, clicked |-> FALSE]
\* no data directory yet
NoData  == [dir |-> FALSE, latest |-> 0, raw |-> 0]
\* the Report tab not rendered yet
NoPass  == [at |-> 0, figs |-> <<>>, cards |-> <<>>]

\* module import with the document libraries installed: both dicts empty,
\* no active section
Init ==
    /\ SECTION_FIGS = <<>>
    /\ SECTION_CARDS = <<>>
    /\ CURRENT_SECTION = ""
    /\ DOCX_OK = TRUE
    /\ PDF_MERGE_OK = TRUE
    /\ pptx_installed = TRUE
    /\ script = "running"
    /\ shown = NoChart
    /\ published = NoData
    /\ active_source_path = ""
    /\ gate = NoGate
    /\ compiled = NoPass
    /\ last_export = NoExport
    /\ clock = 0
    /\ lastBegin = [n \in AllNames |-> 0]
    /\ sinceBegin = <<>>
    /\ dropped = 0

Begin   == \E name \in BeginInputs : clock < MaxOps /\ begin_section(name)
Capture == \E fig \in FigInputs : clock < MaxOps /\ capture_fig(fig)
Cards   == \E group \in CardInputs : clock < MaxOps /\ capture_metric_cards(group)
Export  == \E key \in ExportKeys : render_export_row(key)

Next == Begin \/ Capture \/ Cards \/ Export

Spec == Init /\ [][Next]_vars

\* one section, one pass: begin_section, then up to MaxFigs captures, with the
\* page built at any point
IsOdd(fig) == fig.raster # RasterOk
OddCount == Cardinality({i \in 1..Len(get_charts(PdfSection)) : IsOdd(get_charts(PdfSection)[i])})

PdfBegin   == clock = 0 /\ begin_section(PdfSection)
PdfCapture == \E fig \in PdfFigInputs :
                 /\ clock >= 1
                 /\ Len(get_charts(PdfSection)) < MaxFigs
                 /\ (IsOdd(fig) => OddCount < MaxOdd)
                 /\ capture_fig(fig)
PdfBuild   == clock >= 1 /\ build_section_pdf(PdfSection)

NextPdf == PdfBegin \/ PdfCapture \/ PdfBuild

SpecPdf == Init /\ [][NextPdf]_vars

\* the Report tab: sections of the consolidated list and Forecasting are
\* rendered in any order and any number of times, and the consolidated export
\* row is used at any point
ReportBeginInputs == {"Overview", "Comparison", "Forecasting"}

ReportFigInputs ==
    { [raster |-> RasterOk, menus |-> FALSE, title |-> "", data |-> <<PlainTrace>>],
      [raster |-> RasterSkipped, menus |-> FALSE, title |-> "", data |-> <<SourceTrace>>] }

ReportCardInputs == { [cards |-> <<Card>>, title |-> "Yearly Highlights"] }

ReportBegin   == \E name \in ReportBeginInputs : clock < MaxReportOps /\ begin_section(name)
ReportCapture == \E fig \in ReportFigInputs : clock < MaxReportOps /\ capture_fig(fig)
ReportCards   == \E group \in ReportCardInputs :
                    clock < MaxReportOps /\ capture_metric_cards(group)
ReportExport  == render_export_row(ReportKey)

NextReport == ReportBegin \/ ReportCapture \/ ReportCards \/ ReportExport

SpecReport == Init /\ [][NextReport]_vars

\* the narrative document of one section: the section is begun, one chart
\* with any trace is captured, then possibly a second, plain chart, and the
\* document is built at any point
PlainFig == [raster |-> RasterOk, menus |-> FALSE, title |-> "", data |-> <<PlainTrace>>]

\* a chart with no trace, with one trace, or with that trace before a plain one
DocDataInputs(y) ==
    {<<>>} \cup UNION { {<<t>>, <<t, PlainTrace>>} : t \in SeriesOver(y) \cup PiesOver(y) }

DocFig(d) == [raster |-> RasterOk, menus |-> FALSE, title |-> "", data |-> d]

DocBegin       == clock = 0 /\ begin_section(PdfSection)
DocCapture     == clock = 1 /\ \E y \in ArraysUpTo(MaxLen) : \E d \in DocDataInputs(y) :
                                 capture_fig(DocFig(d))
DocCaptureNext == clock = 2 /\ capture_fig(PlainFig)
DocBuild       == clock >= 1 /\ build_section_docx(PdfSection)

NextDoc == DocBegin \/ DocCapture \/ DocCaptureNext \/ DocBuild

SpecDoc == Init /\ [][NextDoc]_vars

\* date labels: one section holding one chart of one or two traces, whose x
\* arrays differ in kind, in length and in the months they cover; the chart
\* is exported as a page or through the export row
LabelXInputs ==
    UNION { DateXInputs(n) \cup PlainXInputs(n)
            \cup { [i \in 1..n |-> XDate(i + 1, 2024)] } : n \in 0..MaxLen }

Ones(n) == [i \in 1..n |-> Num(1000)]

LabelTraces ==
    { Trace("scatter", "Grid", x, Ones(Len(x)), <<>>, <<>>) : x \in LabelXInputs }
    \cup { Trace("pie", "Mix", <<>>, <<>>, <<"A", "B">>, Ones(2)) }

LabelFigInputs ==
    { [raster |-> r, menus |-> FALSE, title |-> "", data |-> d] :
        r \in {RasterOk, RasterDeckFail},
        d \in {<<t>> : t \in LabelTraces} \cup (LabelTraces \X LabelTraces) }

LabelBegin   == clock = 0 /\ begin_section(PdfSection)
LabelCapture == clock = 1 /\ \E fig \in LabelFigInputs : capture_fig(fig)
LabelPdf     == clock = 2 /\ build_section_pdf(PdfSection)
LabelRow     == clock = 2 /\ render_export_row(PdfSection)

NextLabel == LabelBegin \/ LabelCapture \/ LabelPdf \/ LabelRow

SpecLabel == Init /\ [][NextLabel]_vars

\* the card tiles: one section holding one chart, a first card group of up
\* to MaxCards cards of one kind, and further one-card groups, with or
\* without titles; the section's page is built at any point
MaxCards == 5
MaxGroups == 8

CardKinds ==
    { [label |-> "Total", value |-> "10", delta |-> d, delta_color |-> c] :
        d \in {"+5%", "-5%", ""}, c \in {"normal", "inverse"} }

TileGroupInputs ==
    { [cards |-> [i \in 1..k |-> card], title |-> t] :
        k \in 0..MaxCards, card \in CardKinds, t \in {"", "Yearly Highlights"} }

TileBegin == clock = 0 /\ begin_section(PdfSection)
TileChart == clock = 1 /\ capture_fig(PlainFig)
TileGroup == clock = 2 /\ \E group \in TileGroupInputs : capture_metric_cards(group)
TileMore  == clock >= 3 /\ Len(get_cards(PdfSection)) < MaxGroups
                /\ \E t \in {"", "Monthly Highlights"} :
                       capture_metric_cards([cards |-> <<Card>>, title |-> t])
TileBuild == clock >= 3 /\ build_section_pdf(PdfSection)

NextTile == TileBegin \/ TileChart \/ TileGroup \/ TileMore \/ TileBuild

SpecTile == Init /\ [][NextTile]_vars

\* the explanation slides: one section holding one chart, with or without a
\* title, of no trace, one trace, or that trace before a plain one; the
\* section's deck is built at any point
DeckDataInputs(y) ==
    {<<>>} \cup UNION { {<<t>>, <<t, PlainTrace>>} :
                            t \in { Trace("bar", "Grid", [i \in 1..Len(y) |-> XDate(i, 2024)], y, <<>>, <<>>),
                                    Trace("scatter", "", <<>>, y, <<>>, <<>>),
                                    Trace("pie", "", <<>>, <<>>, <<"A">>, y) } }

SlideBegin   == clock = 0 /\ begin_section(PdfSection)
SlideCapture == clock = 1 /\ \E y \in ArraysUpTo(MaxLen) : \E d \in DeckDataInputs(y) :
                               \E title \in {"", "Monthly Mix"} :
                                   capture_fig([raster |-> RasterOk, menus |-> FALSE,
                                                title |-> title, data |-> d])
SlideBuild   == clock >= 1 /\ build_section_ppt_brand(PdfSection)

NextSlide == SlideBegin \/ SlideCapture \/ SlideBuild

SpecSlide == Init /\ [][NextSlide]_vars

\* the screen: sections are begun and charts rendered with render_fig, with
\* or without selector menus, on the cached or on the direct path
MaxScreenOps == 4

ScreenFigInputs ==
    { [raster |-> RasterOk, menus |-> m, title |-> "", data |-> d] :
        m \in BOOLEAN, d \in {<<PlainTrace>>, <<SourceTrace>>} }

ScreenBegin  == clock < MaxScreenOps /\ \E name \in ReportBeginInputs : begin_section(name)
ScreenRender == clock < MaxScreenOps
                   /\ \E fig \in ScreenFigInputs, cached \in BOOLEAN : render_fig(fig, cached)

NextScreen == ScreenBegin \/ ScreenRender

SpecScreen == Init /\ [][NextScreen]_vars

\* a run of the script from its first line: the imports, then the tabs.
\* The libraries of the two optional formats may be missing.
MaxRunOps == 3

InitRun ==
    /\ SECTION_FIGS = <<>>
    /\ SECTION_CARDS = <<>>
    /\ CURRENT_SECTION = ""
    /\ DOCX_OK \in BOOLEAN
    /\ PDF_MERGE_OK = TRUE
    /\ pptx_installed \in BOOLEAN
    /\ script = "start"
    /\ shown = NoChart
    /\ published = NoData
    /\ active_source_path = ""
    /\ gate = NoGate
    /\ compiled = NoPass
    /\ last_export = NoExport
    /\ clock = 0
    /\ lastBegin = [n \in AllNames |-> 0]
    /\ sinceBegin = <<>>
    /\ dropped = 0

\* the module-level statements up to the first tab: "from pptx import
\* Presentation" outside any try raises ModuleNotFoundError when python-pptx
\* is missing, which ends the run
RunImports ==
    /\ script = "start"
    /\ script' = IF pptx_installed THEN "running" ELSE "crashed"
    /\ UNCHANGED <<SECTION_FIGS, SECTION_CARDS, CURRENT_SECTION, DOCX_OK, PDF_MERGE_OK,
                   pptx_installed, shown, published, active_source_path, gate,
                   compiled, last_export, history>>

RunBegin   == script = "running" /\ clock < MaxRunOps
                 /\ \E name \in BeginInputs : begin_section(name)
RunCapture == script = "running" /\ clock < MaxRunOps
                 /\ \E fig \in FigInputs : capture_fig(fig)
RunExport  == script = "running" /\ \E key \in ExportKeys : render_export_row(key)

NextRun == RunImports \/ RunBegin \/ RunCapture \/ RunExport

SpecRun == InitRun /\ [][NextRun]_vars

\* os.path.join(DATA_DIR, PUBLISH_BASENAME) with the default names
PublishedPath == "data/latest.xlsx"

\* _publish_uploaded_xlsx(uploaded_file): the upload is written to
\* upload_<ts>.xlsx and copied over the published file
publish_uploaded_xlsx(data, up) == [dir |-> TRUE, latest |-> up, raw |-> up]

\* the sidebar reaches the uploader: Administrator mode, a configured
\* password, and the entered password equal to it and not empty
Unlocked_any_password(mode, expected, pwd) ==
    /\ mode = "Administrator"
    /\ expected # ""
    /\ Len(pwd) > 0

Unlocked(mode, expected, pwd) ==
    /\ mode = "Administrator"
    /\ expected # ""
    /\ pwd = expected /\ Len(pwd) > 0

\* the sidebar block of one run: mode is the radio, pwd the password field,
\* up the uploaded workbook (0: none) and clicked the Publish button, the
\* last three as the widgets would return them if the run reaches them.
\* _get_latest_file_path() creates the data directory in every run.
sidebar(mode, pwd, up, clicked) ==
    LET Leaves(data, publishes) ==
            /\ published' = IF publishes THEN publish_uploaded_xlsx(data, up) ELSE data
            /\ active_source_path' = IF publishes THEN PublishedPath ELSE active_source_path
    IN  /\ gate' = [mode |-> mode, expected |-> gate.expected, pwd |-> pwd, up |-> up,
                    clicked |-> clicked]
        /\ Leaves([published EXCEPT !.dir = TRUE],
                  Unlocked(mode, gate.expected, pwd) /\ up # 0 /\ clicked)
        /\ UNCHANGED <<SECTION_FIGS, SECTION_CARDS, CURRENT_SECTION, DOCX_OK, PDF_MERGE_OK,
                       pptx_installed, script, shown, compiled, last_export, history>>

\* runs of the script with or without a configured admin password: the
\* sidebar of each run, then the tabs
ModeInputs     == {"Viewer", "Administrator"}
ExpectedInputs == {"", "s3cret"}
PwdInputs      == {"", "s3cret", "S3cret", "s3cret ", "x"}
UploadInputs   == {0, 1, 2}

InitGate ==
    /\ SECTION_FIGS = <<>>
    /\ SECTION_CARDS = <<>>
    /\ CURRENT_SECTION = ""
    /\ DOCX_OK = TRUE
    /\ PDF_MERGE_OK = TRUE
    /\ pptx_installed = TRUE
    /\ script = "running"
    /\ shown = NoChart
    /\ published = NoData
    /\ active_source_path = ""
    /\ gate \in {[NoGate EXCEPT !.expected = e] : e \in ExpectedInputs}
    /\ compiled = NoPass
    /\ last_export = NoExport
    /\ clock = 0
    /\ lastBegin = [n \in AllNames |-> 0]
    /\ sinceBegin = <<>>
    /\ dropped = 0

GateSidebar == script = "running"
                  /\ \E mode \in ModeInputs, pwd \in PwdInputs, up \in UploadInputs,
                        clicked \in BOOLEAN : sidebar(mode, pwd, up, clicked)
GateBegin   == clock = 0 /\ gate.mode # "" /\ begin_section(PdfSection)
GateRender  == clock = 1 /\ \E cached \in BOOLEAN : render_fig(PlainFig, cached)
GateExport  == clock = 2 /\ render_export_row(PdfSection)

NextGate == GateSidebar \/ GateBegin \/ GateRender \/ GateExport

SpecGate == InitGate /\ [][NextGate]_vars

\* the tabs and then the Report tab: source sections are begun and filled
\* with render_fig and capture_metric_cards, and the Report tab is rendered
\* at any point
MaxTabOps == 5

TabFigInputs ==
    { [raster |-> RasterOk, menus |-> TRUE, title |-> "", data |-> <<PlainTrace>>],
      [raster |-> RasterOk, menus |-> FALSE, title |-> "Monthly Mix",
       data |-> <<SourceTrace>>] }

TabBegin  == clock < MaxTabOps /\ \E name \in ReportBeginInputs : begin_section(name)
TabRender == clock < MaxTabOps
                /\ \E fig \in TabFigInputs, cached \in BOOLEAN : render_fig(fig, cached)
TabCards  == clock < MaxTabOps
                /\ \E group \in ReportCardInputs : capture_metric_cards(group)
TabReport == clock < MaxTabOps
                /\ \E paths \in [1..SourceCount -> BOOLEAN] : tab_report(paths)

NextTab == TabBegin \/ TabRender \/ TabCards \/ TabReport

SpecTab == Init /\ [][NextTab]_vars

-----------------------------------------------------------------------------
(* Helpers of the properties *)

Begun == \E n \in AllNames : lastBegin[n] > 0

\* a step that is one capture_fig or capture_metric_cards call
CaptureStep == clock' = clock + 1 /\ lastBegin' = lastBegin

\* a step that is one begin_section(S) call
BeginStep(S) == lastBegin'[S] # lastBegin[S]

Min(a, b) == IF a <= b THEN a ELSE b

IsPrefix(s, t) == Len(s) <= Len(t) /\ \A i \in 1..Len(s) : s[i] = t[i]

IsSuffix(s, t) ==
    Len(s) <= Len(t) /\ \A i \in 1..Len(s) : s[i] = t[Len(t) - Len(s) + i]

\* the step appended exactly one new item, stamped with this call, to the
\* chart list or to the card-group list of section S, and to no other list
AppendedTo(S) ==
    LET newFig  == /\ Len(get_charts(S)') = Len(get_charts(S)) + 1
                   /\ get_charts(S)'[Len(get_charts(S)')].id = clock'
                   /\ Ids(SubSeq(get_charts(S)', 1, Len(get_charts(S)))) = Ids(get_charts(S))
                   /\ get_cards(S)' = get_cards(S)
        newCard == /\ Len(get_cards(S)') = Len(get_cards(S)) + 1
                   /\ get_cards(S)'[Len(get_cards(S)')].id = clock'
                   /\ SubSeq(get_cards(S)', 1, Len(get_cards(S))) = get_cards(S)
                   /\ Ids(get_charts(S)') = Ids(get_charts(S))
    IN  /\ newFig \/ newCard
        /\ \A T \in AllNames \ {S} :
              /\ Ids(get_charts(T)') = Ids(get_charts(T))
              /\ get_cards(T)' = get_cards(T)

-----------------------------------------------------------------------------
(* C1 *)

\* C1 as stated: for every section name S, the empty string included, after
\* begin_section(S) and N capture_fig calls with no begin_section in between,
\* the chart list read for S is exactly those N charts in call order.
C1_AnyName ==
    Begun => Ids(get_charts(CURRENT_SECTION)) = sinceBegin

\* C1 as amended: the same for every non-empty section name S; after
\* begin_section("") the list read for "" stays empty and the N charts are
\* the last N entries of the "Page" list, in call order.
C1_NonEmptyName ==
    /\ (Begun /\ CURRENT_SECTION # "") => Ids(get_charts(CURRENT_SECTION)) = sinceBegin
    /\ (Begun /\ CURRENT_SECTION = "") =>
          /\ get_charts("") = <<>>
          /\ IsSuffix(sinceBegin, Ids(get_charts(DefaultBucket)))

C1_Witness ==
    /\ CURRENT_SECTION = "Overview"
    /\ Len(sinceBegin) = 2
    /\ Ids(get_charts("Overview")) = sinceBegin

-----------------------------------------------------------------------------
(* C2 *)

\* C2: every begin_section(S) call leaves both the chart list and the
\* card-group list of S empty, whatever they held before.
C2_BeginClearsBoth ==
    [][\A S \in AllNames :
          BeginStep(S) => (get_charts(S)' = <<>> /\ get_cards(S)' = <<>>)]_vars

\* a section that held a chart and a card-group has just been begun again
C2_Witness ==
    /\ lastBegin[CURRENT_SECTION] = clock
    /\ dropped >= 2
    /\ get_charts(CURRENT_SECTION) = <<>>
    /\ get_cards(CURRENT_SECTION) = <<>>

-----------------------------------------------------------------------------
(* C3 *)

\* C3: in every reachable state, every chart and every card-group stored
\* under a section S was captured after the most recent begin_section(S).
C3_SamePass ==
    \A S \in AllNames :
        /\ \A i \in 1..Len(get_charts(S)) : get_charts(S)[i].id > lastBegin[S]
        /\ \A i \in 1..Len(get_cards(S)) : get_cards(S)[i].id > lastBegin[S]

\* a section begun a second time, after it held something, holds a new item
C3_Witness ==
    \E S \in AllNames :
        /\ lastBegin[S] >= 3
        /\ dropped >= 1
        /\ CURRENT_SECTION = S
        /\ Len(get_charts(S)) + Len(get_cards(S)) >= 1

-----------------------------------------------------------------------------
(* C4 *)

\* C4: with no active section (CURRENT_SECTION empty) a capture call is
\* possible and appends its chart or card-group to the "Page" bucket.
C4_FallbackToPage ==
    [][(CaptureStep /\ CURRENT_SECTION = "") => AppendedTo(DefaultBucket)]_vars

\* no begin_section was ever called and "Page" holds a chart and a card-group
C4_Witness ==
    /\ ~Begun
    /\ Len(get_charts(DefaultBucket)) >= 1
    /\ Len(get_cards(DefaultBucket)) >= 1

-----------------------------------------------------------------------------
(* C5 *)

\* C5 as stated: every capture call appends to the lists of the most
\* recently begun section only, every other section's lists staying as
\* they were.
C5_ToLatestBegun ==
    [][(CaptureStep /\ Begun) =>
          /\ \A n \in AllNames : lastBegin[n] <= lastBegin[CURRENT_SECTION]
          /\ AppendedTo(CURRENT_SECTION)]_vars

\* C5 as amended: the same whenever the most recently begun section has a
\* non-empty name; after begin_section("") the captures go to "Page".
C5_ToLatestBegunNamed ==
    [][(CaptureStep /\ Begun) =>
          /\ \A n \in AllNames : lastBegin[n] <= lastBegin[CURRENT_SECTION]
          /\ CURRENT_SECTION' = CURRENT_SECTION
          /\ AppendedTo(ActiveName)]_vars

\* begin_section("Overview"), a capture, begin_section("Forecasting"), a capture
C5_Witness ==
    /\ 0 < lastBegin["Overview"]
    /\ lastBegin["Overview"] < lastBegin["Forecasting"]
    /\ CURRENT_SECTION = "Forecasting"
    /\ Len(get_charts("Overview")) + Len(get_cards("Overview")) = 1
    /\ Len(get_charts("Forecasting")) + Len(get_cards("Forecasting")) = 1

-----------------------------------------------------------------------------
(* C6 *)

\* C6: an export step, whether it returns bytes or fails, adds no key to
\* either dict, keeps the entries of every chart list and card-group list
\* and their order, and keeps the current-section pointer.
C6_ExportKeepsRegistry ==
    [][(last_export' # last_export \/ clock' = clock) =>
          /\ DOMAIN SECTION_FIGS' = DOMAIN SECTION_FIGS
          /\ DOMAIN SECTION_CARDS' = DOMAIN SECTION_CARDS
          /\ \A S \in AllNames : Ids(get_charts(S)') = Ids(get_charts(S))
          /\ SECTION_CARDS' = SECTION_CARDS
          /\ CURRENT_SECTION' = CURRENT_SECTION]_vars

\* an export row over a populated section whose PDF returned bytes and whose
\* deck failed
C6_Witness ==
    /\ last_export.pdf.status = "bytes"
    /\ last_export.ppt.status = "Exception"
    /\ get_charts(last_export.key) # <<>>

-----------------------------------------------------------------------------
(* Helpers of the PDF properties (SpecPdf) *)

PdfDone == last_export.pdf.status = "bytes"

\* the page of the last build_section_pdf call that returned bytes
PdfPage == last_export.pdf.pages[1]

\* the captured chart a rasterization record is about
FigOf(r) ==
    CHOOSE f \in {get_charts(PdfSection)[i] : i \in 1..Len(get_charts(PdfSection))} :
        f.id = r.fig

RasterRecords == {last_export.pdf.raster[i] : i \in 1..Len(last_export.pdf.raster)}

\* the grid table: 1 -> 1x1; 2,3,4 -> 2x2; 5,6 -> 3x2; 7,8,9 and more -> 3x3
GridTable(n) ==
    IF n = 1 THEN <<1, 1>>
    ELSE IF n \in 2..4 THEN <<2, 2>>
    ELSE IF n \in 5..6 THEN <<3, 2>>
    ELSE <<3, 3>>

-----------------------------------------------------------------------------
(* C7 *)

\* C7 as stated: the grid of the page is the table's entry for n, n being
\* the number of charts of the section.
C7_GridByChartCount ==
    (PdfDone /\ Len(last_export.pdf.raster) >= 1) =>
        PdfPage.grid = GridTable(Len(last_export.pdf.raster))

\* C7 as amended: the grid of the page is the table's entry for n, n being
\* the number of chart images produced (a chart whose rasterization was
\* skipped is not counted).
C7_GridByImageCount ==
    (PdfDone /\ Len(PdfPage.images) >= 1) =>
        PdfPage.grid = GridTable(Len(PdfPage.images))

\* a page of four images out of five charts, one of them skipped
C7_Witness ==
    /\ PdfDone
    /\ Len(last_export.pdf.raster) = 5
    /\ Len(PdfPage.images) = 4
    /\ PdfPage.grid = <<2, 2>>

-----------------------------------------------------------------------------
(* C8 *)

\* C8: the page draws min(n, cols x rows) of its n images, the i-th drawn
\* image being the i-th image in capture order, placed row by row and left
\* to right in a cell of its own; beyond nine images only the first nine
\* are drawn, and the document has that one page.
C8_RowMajorPlacement ==
    PdfDone =>
        LET p    == PdfPage
            n    == Len(p.images)
            cols == p.grid[1]
            rows == p.grid[2]
        IN  /\ Len(last_export.pdf.pages) = 1
            /\ Len(p.drawn) = Min(n, cols * rows)
            /\ n > 9 => Len(p.drawn) = 9
            /\ \A i \in 1..(n - 1) : p.images[i].fig < p.images[i + 1].fig
            /\ \A i \in 1..Len(p.drawn) :
                  /\ p.drawn[i].fig = p.images[i].fig
                  /\ p.drawn[i].row = (i - 1) \div cols
                  /\ p.drawn[i].col = (i - 1) % cols
                  /\ p.drawn[i].row < rows
            /\ \A i, j \in 1..Len(p.drawn) :
                  (p.drawn[i].row = p.drawn[j].row /\ p.drawn[i].col = p.drawn[j].col) => i = j

\* ten images, nine drawn
C8_Witness ==
    /\ PdfDone
    /\ Len(PdfPage.images) = 10
    /\ Len(PdfPage.drawn) = 9

-----------------------------------------------------------------------------
(* C9 *)

PresetSet == {Presets[i] : i \in 1..Len(Presets)}

\* the pio.to_image calls a record lists at the presets
PresetAttempts(r) == SelectSeq(r.attempts, LAMBDA s : s \in PresetSet)

\* the presets are tried in the order 7, 6, 5, 4, 3, each only after all
\* before it raised
TriedInOrder(r) ==
    LET a == PresetAttempts(r) IN
    /\ a # <<>>
    /\ IsPrefix(a, Presets)
    /\ \A i \in 1..(Len(a) - 1) : a[i] \in FigOf(r).raster.raises
    /\ (Len(a) < Len(Presets)) => a[Len(a)] \notin FigOf(r).raster.raises

\* the first preset that does not raise exists
SomePresetWorks(r) == PresetSet \ FigOf(r).raster.raises # {}

\* the first preset that does not raise: the last one tried
FirstWorking(r) == PresetAttempts(r)[Len(PresetAttempts(r))]

\* C9 as stated: the presets are tried in decreasing order, a lower one only
\* after every higher one failed, no other rasterization is attempted, and
\* the chart's image is the output of the first preset that succeeds.
C9_FirstSuccessIsUsed ==
    \A r \in RasterRecords :
        /\ TriedInOrder(r)
        /\ r.attempts = PresetAttempts(r)
        /\ SomePresetWorks(r) => (HasImage(r) /\ r.scale = FirstWorking(r))

\* C9 as amended: the presets are tried in decreasing order, a lower one only
\* after every higher one failed; the chart's image is the output of the
\* first preset that succeeds when the image reader accepts that output;
\* when the reader rejects it, one more rasterization at scale 1 is attempted
\* and the chart's image is that one, or the chart is skipped.
C9_FirstReadableSuccessIsUsed ==
    \A r \in RasterRecords :
        /\ TriedInOrder(r)
        /\ (SomePresetWorks(r) /\ FirstWorking(r) \notin FigOf(r).raster.bombs) =>
              /\ r.attempts = PresetAttempts(r)
              /\ r.outcome = "image"
              /\ r.scale = FirstWorking(r)
        /\ (SomePresetWorks(r) /\ FirstWorking(r) \in FigOf(r).raster.bombs) =>
              /\ r.attempts = PresetAttempts(r) \o <<FallbackScale>>
              /\ r.outcome \in {"fallback", "skipped"}
              /\ r.outcome = "fallback" => r.scale = FallbackScale
        /\ (FigOf(r).raster = RasterThird) => (r.outcome = "image" /\ r.scale = Presets[3])

\* a chart whose first two presets raised and whose image is the third's
C9_Witness ==
    \E r \in RasterRecords :
        /\ r.attempts = <<7, 6, 5>>
        /\ r.outcome = "image"
        /\ r.scale = 5

-----------------------------------------------------------------------------
(* C10 *)

\* C10: a chart for which every preset fails is skipped and the call still
\* returns the page with the section's other charts.
C10_NeverAbortsThePage ==
    (last_export.pdf.status # "not_run") =>
        /\ last_export.pdf.status = "bytes"
        /\ \A r \in RasterRecords :
              (PresetSet \subseteq FigOf(r).raster.raises) => r.outcome = "skipped"

-----------------------------------------------------------------------------
(* Helpers of the export properties *)

\* the kinds of a slide sequence, in order
Kinds(slides) == [i \in 1..Len(slides) |-> slides[i].kind]

\* the step is one export row over section_key
ExportStep(section_key) == clock' = clock /\ render_export_row(section_key)

-----------------------------------------------------------------------------
(* C11 *)

\* C11: a single-section export row over a section that holds no chart and
\* no card-group, begun or never begun, fails in none of the three formats:
\* the PDF is a one-page document, the DOCX is a document, and the deck has
\* exactly the two slides title and conclusion.
C11_EmptySectionExports ==
    [][\A K \in ExportKeys :
          (~is_report(K) /\ get_charts(K) = <<>> /\ get_cards(K) = <<>> /\ ExportStep(K)) =>
              /\ last_export'.pdf.status = "bytes"
              /\ Len(last_export'.pdf.pages) = 1
              /\ last_export'.docx.status = "bytes"
              /\ last_export'.ppt.status = "bytes"
              /\ Kinds(last_export'.ppt.slides) = <<"title", "conclusion">>]_vars

\* the row was exported for a section that was never begun, while another
\* section had been begun
C11_Witness ==
    /\ last_export.key = "Forecasting"
    /\ "Forecasting" \notin DOMAIN SECTION_FIGS
    /\ "Overview" \in DOMAIN SECTION_FIGS
    /\ Len(last_export.pdf.pages) = 1
    /\ Len(last_export.ppt.slides) = 2

-----------------------------------------------------------------------------
(* C14 *)

\* the charts a deck over section_key is built from
DeckCharts(section_key) ==
    IF is_report(section_key) THEN ReportFigs(SECTION_FIGS, 1) ELSE get_charts(section_key)

-----------------------------------------------------------------------------
(* Helpers of the consolidated-export properties (SpecReport) *)

Listed == {section_order[i] : i \in 1..Len(section_order)}

HasChart(S)   == get_charts(S) # <<>>
HasContent(S) == get_charts(S) # <<>> \/ get_cards(S) # <<>>

\* the step is one consolidated export row
ReportStep == ExportStep(ReportKey)

-----------------------------------------------------------------------------
(* C12 *)

\* C12: the consolidated PDF export fails with the "No charts found" error
\* exactly when no listed section holds a chart or a card-group, and returns
\* a document whenever some listed section holds a chart or a card-group.
C12_FailsOnlyWhenNothingCaptured ==
    [][ReportStep =>
          /\ (last_export'.pdf.status = "RuntimeError") <=> ~(\E S \in Listed : HasContent(S))
          /\ (\E S \in Listed : HasContent(S)) => last_export'.pdf.status = "bytes"]_vars

-----------------------------------------------------------------------------
(* C13 *)

\* C13: with nothing captured in any listed section, each of the three
\* consolidated exports raises the "nothing available" error and returns no
\* bytes.
C13_AllThreeRaiseWhenEmpty ==
    [][(ReportStep /\ ~(\E S \in Listed : HasContent(S))) =>
          /\ last_export'.pdf.status = "RuntimeError"
          /\ last_export'.docx.status = "RuntimeError"
          /\ last_export'.ppt.status = "RuntimeError"]_vars

-----------------------------------------------------------------------------
(* C15 *)

\* the charts of the seven sections, section after section, each section's
\* charts in capture order
SevenSections ==
    get_charts("Overview") \o get_charts("Energy Sources") \o get_charts("Solar Savings")
    \o get_charts("Expenses") \o get_charts("Production vs Consumption")
    \o get_charts("Gas Consumption") \o get_charts("Comparison")

FigsOf(records) == [i \in 1..Len(records) |-> records[i].fig]

GraphSlides(slides) == SelectSeq(slides, LAMBDA s : s.kind = "graph")

-----------------------------------------------------------------------------
(* C16 *)

\* the listed sections that hold at least one chart, in list order
SectionsWithCharts == SelectSeq(section_order, HasChart)

\* the page a standalone build_section_pdf call produces for section S
StandalonePage(S) == SectionPdf(S, get_charts(S), get_cards(S)).pages[1]

\* C16: a consolidated PDF that was returned is the concatenation, in list
\* order, of the standalone pages of the listed sections: it has one page per
\* listed section holding at least one chart, and each page is that section's
\* standalone page, with its own cards and its own chart grid.
C16_ConcatenationOfStandalonePages ==
    [][(ReportStep /\ last_export'.pdf.status = "bytes") =>
          /\ Len(last_export'.pdf.pages) = Cardinality({S \in Listed : HasChart(S)})
          /\ last_export'.pdf.pages =
                [i \in 1..Len(SectionsWithCharts) |-> StandalonePage(SectionsWithCharts[i])]]_vars

\* a two-page consolidated PDF whose first page carries Overview's cards and
\* whose second page carries Comparison's chart
C16_Witness ==
    /\ last_export.key = ReportKey
    /\ last_export.pdf.status = "bytes"
    /\ Len(last_export.pdf.pages) = 2
    /\ last_export.pdf.pages[1].section = "Overview"
    /\ last_export.pdf.pages[1].cards # <<>>
    /\ last_export.pdf.pages[2].section = "Comparison"
    /\ last_export.pdf.pages[2].drawn # <<>>


-----------------------------------------------------------------------------
(* The narrative document: _describe_trace and build_section_docx *)

\* the entries of the document built last, and the chart an entry describes
DocParas == last_export.docx.paras
DocChart(i) == get_charts(last_export.key)[i]

\* the positions of a series holding a number
Numbers(ys) == {j \in 1..Len(ys) : ys[j].kind = "num"}

\* the label an x value stands for: month and year for a date, the value
\* itself otherwise
XLabel(xval) ==
    IF xval.kind = "date" THEN MonthYear(xval.month, xval.year) ELSE xval

\* the sentence of trace tr is the statistics sentence over the numbers of
\* tr.y, naming the labels of the first positions of the maximum and minimum
StatsOver(b, tr) ==
    \E p \in Numbers(tr.y), q \in Numbers(tr.y) :
        /\ \A j \in Numbers(tr.y) :
              /\ tr.y[j].cents <= tr.y[p].cents
              /\ tr.y[j].cents = tr.y[p].cents => p <= j
              /\ tr.y[j].cents >= tr.y[q].cents
              /\ tr.y[j].cents = tr.y[q].cents => q <= j
        /\ b.form = "stats"
        /\ b.peak = FmtVal(tr.y[p].cents, 100)
        /\ b.lowest = FmtVal(tr.y[q].cents, 100)
        /\ b.average = FmtVal(SumFrom(tr.y, 1), 100 * Cardinality(Numbers(tr.y)))
        /\ b.total = FmtVal(SumFrom(tr.y, 1), 100)
        /\ p <= Len(tr.x) => b.peak_in = XLabel(tr.x[p])
        /\ q <= Len(tr.x) => b.lowest_in = XLabel(tr.x[q])

\* C17: in a built document, the sentence of every line, bar or area trace
\* with at least one numeric y value reports the maximum, minimum, mean and
\* sum over the non-missing values and names, as peak and lowest month, the
\* x label at the first position of the maximum and of the minimum
C17_PeakAndLowestAtTheirLabels ==
    \A i \in 1..Len(DocParas) : \A k \in 1..Len(DocChart(i).data) :
        (DocChart(i).data[k].type # "pie" /\ Numbers(DocChart(i).data[k].y) # {})
            => StatsOver(DocParas[i].bullets[k], DocChart(i).data[k])

\* the same for the traces whose x values are dates or category texts
C17_DatesAndTexts ==
    \A i \in 1..Len(DocParas) : \A k \in 1..Len(DocChart(i).data) :
        ( /\ DocChart(i).data[k].type # "pie"
          /\ Numbers(DocChart(i).data[k].y) # {}
          /\ \A j \in 1..Len(DocChart(i).data[k].x) : DocChart(i).data[k].x[j].kind # "num" )
            => StatsOver(DocParas[i].bullets[k], DocChart(i).data[k])


\* the numbers a composition sentence lists, added up (a dash adds nothing)
RECURSIVE ListedSum(_, _)
ListedSum(parts, i) ==
    IF i > Len(parts) THEN 0
    ELSE (IF parts[i].value.dash THEN 0 ELSE parts[i].value.cents)
         + ListedSum(parts, i + 1)

\* the pie traces with labels and values described in the document built last
DocPies ==
    { ik \in UNION { {<<i, k>> : k \in 1..Len(DocChart(i).data)} : i \in 1..Len(DocParas) } :
        LET i == ik[1]
            k == ik[2]
        IN
        /\ DocChart(i).data[k].type = "pie"
        /\ DocChart(i).data[k].labels # <<>>
        /\ DocChart(i).data[k].values # <<>> }

Shorter(a, b) == IF Len(a) <= Len(b) THEN Len(a) ELSE Len(b)

\* C18 as stated: the composition sentence of every pie trace with labels
\* and values lists one label: value pair for each label that has a value,
\* and the listed values sum to the total the sentence states
C18_ListedValuesSumToTotal ==
    \A ik \in DocPies :
        LET Holds(b, tr) ==
                /\ b.form = "composition"
                /\ Len(b.parts) = Shorter(tr.labels, tr.values)
                /\ ~b.total.dash => ListedSum(b.parts, 1) = b.total.cents
        IN  Holds(DocParas[ik[1]].bullets[ik[2]], DocChart(ik[1]).data[ik[2]])

\* C18 amended: the sentence lists the first min(len(labels), len(values))
\* labels, each with its formatted value or the dash; the stated total is the
\* formatted sum of all numeric values, the dash when there is none; the
\* listed values sum to it when no value is left without a label and every
\* numeric value is a whole number
C18_PairsAndTotal ==
    \A ik \in DocPies :
        LET Holds(b, tr) ==
                /\ b.form = "composition"
                /\ Len(b.parts) = Shorter(tr.labels, tr.values)
                /\ \A j \in 1..Len(b.parts) :
                      /\ b.parts[j].label = tr.labels[j]
                      /\ b.parts[j].value =
                            IF tr.values[j].kind = "num"
                            THEN FmtVal(tr.values[j].cents, 100) ELSE Dash
                /\ b.total = IF Numbers(tr.values) = {} THEN Dash
                             ELSE FmtVal(SumFrom(tr.values, 1), 100)
                /\ ( /\ Len(tr.values) <= Len(tr.labels)
                     /\ Numbers(tr.values) # {}
                     /\ \A j \in Numbers(tr.values) : tr.values[j].cents % 100 = 0 )
                      => ListedSum(b.parts, 1) = b.total.cents
        IN  Holds(DocParas[ik[1]].bullets[ik[2]], DocChart(ik[1]).data[ik[2]])

\* a document describes a pie with more labels than values, two of the
\* values whole numbers, and its listed values add up to the stated total
C18_Witness ==
    \E ik \in DocPies :
        LET Seen(b, tr) ==
                /\ Len(tr.labels) > Len(tr.values)
                /\ Cardinality(Numbers(tr.values)) = 2
                /\ \A j \in Numbers(tr.values) : tr.values[j].cents % 100 = 0
                /\ Len(b.parts) = Len(tr.values)
                /\ ListedSum(b.parts, 1) = b.total.cents
        IN  Seen(DocParas[ik[1]].bullets[ik[2]], DocChart(ik[1]).data[ik[2]])


\* the values a trace is described from, and the traces with no usable
\* numeric data: no values, or only missing and non-numeric ones
DataOf(tr) == IF tr.type = "pie" THEN tr.values ELSE tr.y
NoUsableData(tr) == \A j \in 1..Len(DataOf(tr)) : DataOf(tr)[j].kind \in {"missing", "text"}

\* every trace of the document built last, as <<entry, position>>
DocTraces ==
    UNION { {<<i, k>> : k \in 1..Len(DocChart(i).data)} : i \in 1..Len(DocParas) }

\* no value of any trace captured in the section is beyond float range
NoHugeValue ==
    \A i \in 1..Len(get_charts(PdfSection)) :
        \A k \in 1..Len(get_charts(PdfSection)[i].data) :
            \A j \in 1..Len(DataOf(get_charts(PdfSection)[i].data[k])) :
                DataOf(get_charts(PdfSection)[i].data[k])[j].kind # "huge"

\* C19 as stated: every trace with no usable numeric data, of any kind, is
\* described without failure by the sentence "<name>: no numeric values
\* available."
C19_NeutralForEveryKind ==
    /\ NoHugeValue => last_export.docx.status # "Exception"
    /\ \A ik \in DocTraces :
          LET Holds(b, tr) ==
                  NoUsableData(tr) => b = Sentence("neutral", TraceName(tr))
          IN  Holds(DocParas[ik[1]].bullets[ik[2]], DocChart(ik[1]).data[ik[2]])

\* C19 amended: describing a trace with no usable numeric data does not
\* fail; a line, bar, area or text trace gets "<name>: no numeric values
\* available." (name "Series" when it has none), a pie without labels or
\* without values gets "<name> shows composition data.", and a pie with
\* labels and only missing or non-numeric values gets the composition
\* sentence with a dash as total and a dash for every listed label
C19_NeutralOrComposition ==
    /\ NoHugeValue => last_export.docx.status # "Exception"
    /\ \A ik \in DocTraces :
          LET Holds(b, tr) ==
                  NoUsableData(tr) =>
                      IF tr.type # "pie"
                      THEN b = Sentence("neutral", IF tr.name = "" THEN "Series" ELSE tr.name)
                      ELSE IF tr.labels = <<>> \/ tr.values = <<>>
                      THEN b = Sentence("composition_data",
                                        IF tr.name = "" THEN "Share" ELSE tr.name)
                      ELSE /\ b.form = "composition"
                           /\ b.total = Dash
                           /\ Len(b.parts) = Shorter(tr.labels, tr.values)
                           /\ \A j \in 1..Len(b.parts) : b.parts[j].value = Dash
          IN  Holds(DocParas[ik[1]].bullets[ik[2]], DocChart(ik[1]).data[ik[2]])

\* a document was built over an unnamed text trace holding only missing and
\* non-numeric values, and describes it by the neutral sentence
C19_Witness ==
    \E ik \in DocTraces :
        LET Seen(b, tr) ==
                /\ tr.type = "scatter" /\ tr.name = ""
                /\ Len(tr.y) >= 2 /\ NoUsableData(tr)
                /\ \E j \in 1..Len(tr.y) : tr.y[j].kind = "text"
                /\ \E j \in 1..Len(tr.y) : tr.y[j].kind = "missing"
                /\ b.form = "neutral" /\ b.name = "Series"
        IN  /\ last_export.docx.status = "bytes"
            /\ Seen(DocParas[ik[1]].bullets[ik[2]], DocChart(ik[1]).data[ik[2]])


\* C20: a failure while describing one trace is confined to that trace: the
\* document is still returned, holds the neutral sentence for that trace and
\* the sentence of every other trace of every chart
C20_FailureConfinedToTrace ==
    (DOCX_OK /\ last_export.docx.status # "not_run") =>
        /\ last_export.docx.status = "bytes"
        /\ \A ik \in DocTraces :
              LET Holds(b, tr) ==
                      b = IF describe_trace(tr).form = "raised"
                          THEN Sentence("neutral", TraceName(tr))
                          ELSE describe_trace(tr)
              IN  Holds(DocParas[ik[1]].bullets[ik[2]], DocChart(ik[1]).data[ik[2]])


-----------------------------------------------------------------------------
(* Capabilities *)

\* C21: when python-pptx is unavailable the run of the dashboard goes on,
\* and an export row reports the deck as one RuntimeError (no slide, no
\* chart rasterized) while the PDF and the document of that row were built
C21_DeckUnavailableIsIsolated ==
    ~pptx_installed =>
        /\ script # "crashed"
        /\ last_export.key # "" =>
              /\ last_export.ppt.status = "RuntimeError"
              /\ last_export.ppt.slides = <<>>
              /\ last_export.ppt.raster = <<>>
              /\ last_export.pdf.status # "not_run"
              /\ last_export.docx.status # "not_run"


-----------------------------------------------------------------------------
(* Date labels: _force_month_labels *)

\* C22: an export step leaves every captured chart as it was captured: the
\* same traces with the same x and y values and the same axis settings
C22_ExportsLeaveChartsAsCaptured ==
    [][clock' = clock => SECTION_FIGS' = SECTION_FIGS]_vars

\* C23: when an export rewrites the date labels of a chart, every trace
\* that had x values keeps its number of x points, and each point becomes
\* the month-year text of that trace's own x value at that position
C23_EachTraceOnItsOwnData ==
    [][clock' = clock =>
          \A i \in 1..Len(get_charts(PdfSection)) :
              LET Holds(before, after) ==
                      (before.axis = "captured" /\ after.axis = "category") =>
                          \A k \in 1..Len(before.data) :
                              (HasX(before.data[k]) /\ before.data[k].x # <<>>) =>
                                  /\ Len(after.data[k].x) = Len(before.data[k].x)
                                  /\ \A j \in 1..Len(before.data[k].x) :
                                        after.data[k].x[j] = TickOf(before.data[k].x[j])
              IN  Holds(get_charts(PdfSection)[i], get_charts(PdfSection)'[i])]_vars


-----------------------------------------------------------------------------
(* The screen: render_fig *)

\* C24: the chart render_fig hands to the registry is the chart it
\* displayed: same traces, and no selector menus when the displayed chart
\* had them removed; a render_fig call captures exactly one chart
C24_CapturedIsShown ==
    /\ \A S \in AllNames : \A i \in 1..Len(get_charts(S)) :
          get_charts(S)[i].id = shown.at =>
              /\ get_charts(S)[i].menus = shown.menus
              /\ get_charts(S)[i].data = shown.data
    /\ (shown.at # 0 /\ shown.at = clock) =>
          Cardinality({ <<S, i>> \in AllNames \X (1..MaxScreenOps) :
                          i <= Len(get_charts(S)) /\ get_charts(S)[i].id = clock }) = 1


-----------------------------------------------------------------------------
(* Explanation slides: _figure_summary_points *)

\* the explanation slides of the deck built last, and the chart a slide is about
ExplainSlides ==
    { n \in 1..Len(last_export.ppt.slides) : last_export.ppt.slides[n].kind = "explain" }
SlideChart(n) ==
    CHOOSE c \in { get_charts(last_export.key)[i] : i \in 1..Len(get_charts(last_export.key)) } :
        c.id = last_export.ppt.slides[n].fig

\* a trace whose point carries latest, delta, average and range: it has a y
\* array of numbers and missing values only, with at least one number
Informative(tr) ==
    /\ tr.type # "pie"
    /\ \A j \in 1..Len(tr.y) : tr.y[j].kind \in {"num", "missing"}
    /\ \E j \in 1..Len(tr.y) : tr.y[j].kind = "num"

InformativeCount(fig) == Cardinality({k \in 1..Len(fig.data) : Informative(fig.data[k])})

\* C25 as stated: the bullet list of an explanation slide is never empty, and
\* it ends with the filler whenever the chart has fewer than 2 traces with
\* statistics
C25_FillerBelowTwoInformative ==
    \A n \in ExplainSlides :
        LET Holds(b, fig) ==
                /\ b # <<>>
                /\ InformativeCount(fig) < 2 => b[Len(b)].form = "filler"
        IN  Holds(last_export.ppt.slides[n].bullets, SlideChart(n))

\* C25 amended: the list is never empty; it holds the title point when the
\* chart has a title, then one point per trace (statistics, or the
\* "insufficient numeric history" point), and it ends with the filler
\* exactly when title and traces together make fewer than 2 points
C25_FillerBelowTwoPoints ==
    \A n \in ExplainSlides :
        LET Holds(b, fig, t) ==
                /\ b # <<>>
                /\ Len(b) = IF t + Len(fig.data) < 2 THEN t + Len(fig.data) + 1
                            ELSE t + Len(fig.data)
                /\ t = 1 => b[1] = Point("overview", fig.title)
                /\ \A k \in 1..Len(fig.data) :
                      b[t + k].form = IF Informative(fig.data[k]) THEN "stats"
                                      ELSE "insufficient"
                /\ b[Len(b)].form = "filler" <=> t + Len(fig.data) < 2
                /\ \A k \in 1..(Len(b) - 1) : b[k].form # "filler"
        IN  Holds(last_export.ppt.slides[n].bullets, SlideChart(n),
                  IF SlideChart(n).title # "" THEN 1 ELSE 0)

\* a deck explains a titled chart whose only trace has no statistics: two
\* points, the title and the "insufficient" point, and no filler
C25_Witness ==
    \E n \in ExplainSlides :
        LET Seen(b, fig) ==
                /\ fig.title # "" /\ Len(fig.data) = 1
                /\ InformativeCount(fig) = 0
                /\ Len(b) = 2
                /\ b[1].form = "overview" /\ b[2].form = "insufficient"
        IN  Seen(last_export.ppt.slides[n].bullets, SlideChart(n))


-----------------------------------------------------------------------------
(* Card tiles and chart area of the PDF page *)

\* the page built last, if any
TilePages == last_export.pdf.pages

\* C26: the tiles of a group of k cards form one row, each k-th of the
\* usable width wide, and the row lies within the usable width; a group
\* without cards gets no row
C26_RowWithinUsableWidth ==
    \A p \in 1..Len(TilePages) :
        /\ Len(TilePages[p].tiles) = Len(TilePages[p].cards)
        /\ \A r \in 1..Len(TilePages[p].tiles) :
              /\ Len(TilePages[p].tiles[r]) = Len(TilePages[p].cards[r].cards)
              /\ \A i \in 1..Len(TilePages[p].tiles[r]) :
                    LET Holds(t) ==
                            /\ t.k = Len(TilePages[p].tiles[r])
                            /\ t.y = TilePages[p].tiles[r][1].y
                            /\ t.w_k = usable_w
                            /\ t.x_k >= Pt(M_L) * t.k
                            /\ t.x_k + t.w_k <= (Pt(M_L) + usable_w) * t.k
                    IN  Holds(TilePages[p].tiles[r][i])

\* C27: whenever the page draws charts, the chart area under the cards and
\* the grid cell have positive height
C27_ChartAreaIsPositive ==
    \A p \in 1..Len(TilePages) :
        TilePages[p].area # NoArea =>
            /\ TilePages[p].area.h > 0
            /\ TilePages[p].area.cell_h_n > 0

\* C28: a delta is drawn green exactly when the change is favourable for
\* the card's polarity ('+' under normal, '-' under inverse), red otherwise
C28_GreenWhenFavourable ==
    \A p \in 1..Len(TilePages) : \A r \in 1..Len(TilePages[p].tiles) :
        \A i \in 1..Len(TilePages[p].tiles[r]) :
            LET Holds(t, card) ==
                    card.delta # "" =>
                        t.fill = IF \/ card.delta \in PlusDeltas /\ card.delta_color = "normal"
                                    \/ card.delta \in MinusDeltas /\ card.delta_color = "inverse"
                                 THEN "green" ELSE "red"
            IN  Holds(TilePages[p].tiles[r][i], TilePages[p].cards[r].cards[i])

-----------------------------------------------------------------------------
(* The Report tab *)

\* number of charts the sections before section s of the list hold
RECURSIVE ChartsBefore(_)
ChartsBefore(s) ==
    IF s <= 1 THEN 0
    ELSE ChartsBefore(s - 1) + Len(get_charts(section_order[s - 1]))

\* ids of the charts the seven sections hold
SourceIds ==
    UNION { { get_charts(section_order[s])[i].id :
                i \in 1..Len(get_charts(section_order[s])) } :
            s \in 1..Len(section_order) }

\* r is a copy of the chart f: another object with the same traces, axes and
\* raster behaviour, with f's title when it has one and a title in any case,
\* and with no selector menu that f does not have
CopyOf(r, f) ==
    /\ r.id \notin SourceIds
    /\ r.data = f.data /\ r.axis = f.axis /\ r.raster = f.raster
    /\ (r.menus => f.menus)
    /\ r.title # ""
    /\ (f.title # "" => r.title = f.title)

\* C29: a rendering of the Report tab hands its export row a registry in
\* which the chart lists and the card-group lists of the seven sections are
\* what they were before the tab was rendered, and in which "Report" holds
\* exactly one copy per chart of the seven sections, in the order of the
\* section list and, within a section, in capture order.
C29_ReportTabLeavesSources ==
    [][ compiled' # compiled =>
          /\ \A s \in 1..Len(section_order) :
                /\ DictGet(compiled'.figs, section_order[s]) = get_charts(section_order[s])
                /\ DictGet(compiled'.cards, section_order[s]) = get_cards(section_order[s])
          /\ Len(DictGet(compiled'.figs, ReportKey)) = ChartsBefore(Len(section_order) + 1)
          /\ \A s \in 1..Len(section_order) :
                \A i \in 1..Len(get_charts(section_order[s])) :
                    CopyOf(DictGet(compiled'.figs, ReportKey)[ChartsBefore(s) + i],
                           get_charts(section_order[s])[i]) ]_vars

\* the Report tab was rendered over two sections with a chart each, one of
\* them with cards, and compiled a chart of the later section after a chart
\* of the earlier one
C29_Witness ==
    /\ compiled.at = clock /\ clock > 0
    /\ Len(DictGet(compiled.figs, ReportKey)) = 2
    /\ Len(DictGet(compiled.figs, "Overview")) = 1
    /\ Len(DictGet(compiled.figs, "Comparison")) = 1
    /\ DictGet(compiled.figs, ReportKey)[2].data = DictGet(compiled.figs, "Comparison")[1].data
    /\ DictGet(compiled.figs, ReportKey)[1].data # DictGet(compiled.figs, ReportKey)[2].data

-----------------------------------------------------------------------------
(* The admin gate *)

\* C30: the published workbook and the session's active source path change
\* only in a run whose mode is Administrator, whose configured admin
\* password is not empty, and whose entered password is not empty and equal
\* to the configured one; in every other run both are left as they were.
C30_PublishOnlyWhenUnlocked ==
    [][ (published'.latest # published.latest \/ published'.raw # published.raw
            \/ active_source_path' # active_source_path)
        => /\ gate'.mode = "Administrator"
           /\ gate'.expected # ""
           /\ gate'.pwd # ""
           /\ gate'.pwd = gate'.expected ]_vars

\* an administrator with the right password published a workbook
C30_Witness ==
    /\ published.latest # 0
    /\ active_source_path = PublishedPath
    /\ gate.mode = "Administrator" /\ gate.pwd = gate.expected /\ gate.clicked
    /\ gate.up = published.latest

====
